---- MODULE Spec2Model ----
(***************************************************************************)
(* Hotel loyalty backend (Express + PostgreSQL): the strict checkout       *)
(* handler POST /api/guests and the bonus lookup GET /api/bonuses/search   *)
(* of src/unnamed/part_000, with the input normalisation they perform.     *)
(*                                                                         *)
(* Text is a sequence of one-character strings.  A JSON / query value is a *)
(* tagged record: undefined, null, a string, a finite number, a boolean or *)
(* an array of strings.                                                    *)
(*                                                                         *)
(* Spec is the started server of part_000 answering the two routes.        *)
(* AuthSpec is the startup and POST /api/auth, GET /api/config of the      *)
(* three revisions of the server, over the configurations of process.env.  *)
(* TierSpec is the loyalty tier progression applied to tier labels.        *)
(* SearchSpec is the bonus lookup over the tables of bonuses_balance.      *)
(* ErrorSpec is the routes that query the repository, in every revision,   *)
(* with queries that fail.  ConcurrentSpec is part_000 handling several    *)
(* requests at once behind its rate limiter.  LegacySpec is POST           *)
(* /api/guests of the servers without validation.  FormSpec is the         *)
(* checkout form in the browser (src/unnamed/part_002).                    *)
(***************************************************************************)
EXTENDS Integers, Sequences, FiniteSets, TLC

VARIABLES
  phase,            \* "idle": waiting for a request; "done": a response was produced
  route,            \* the route of the request being answered
  req,              \* its body (POST) or query (GET)
  res,              \* the response: status, message, data
  calls,            \* the repository calls issued on behalf of that request
  NODE_ENV,         \* the constant NODE_ENV, read from process.env once at startup
  bonuses_balance,  \* the reporting table, owned by the external system
  server,           \* the revision of the server that runs
  env,              \* process.env: the configuration the process was started with
  trace,            \* what the handler did for that request besides answering
  guests,           \* the guests table: the rows inserted so far
  inflight,         \* the requests being handled concurrently, by arrival
  limiterHits,      \* the requests the rate limiter has counted in its window
  form              \* the checkout form in the browser, Null where no browser runs

vars == <<phase, route, req, res, calls, NODE_ENV, bonuses_balance, server, env, trace,
          guests, inflight, limiterHits, form>>

(***************************************************************************)
(* Bounds of the explored inputs.                                          *)
(***************************************************************************)
\* longest run of blanks put before or after a text input
MaxPad == 1
\* longest prefix (country code, "+", blanks) put before a phone body
MaxHead == 2
\* most rows of a bonus table
MaxRows == 3
\* most requests handled concurrently
MaxRequests == 2
\* the phone input events of one session of the form
MaxInputs == 2
\* the submit events of one session of the form
MaxSubmits == 1

(***************************************************************************)
(* Program constants.                                                      *)
(***************************************************************************)
PhoneDigits == 10
MaxNameLength == 120
MaxBookingLength == 80
MaxAmount == 1000000
MaxBonus == 1000000
DefaultRateLimitMax == 100
\* the delay of the debounced lookup, in milliseconds
DebounceMs == 600

(***************************************************************************)
(* Characters and text.                                                    *)
(***************************************************************************)
DigitChars == <<"0", "1", "2", "3", "4", "5", "6", "7", "8", "9">>

\* the regular expression class \d
IsDigit(c) == \E i \in 1..10 : DigitChars[i] = c

\* the white space String.prototype.trim removes
IsSpace(c) == c \in {" ", "\t", "\n"}

DigitValue(c) == (CHOOSE i \in 1..10 : DigitChars[i] = c) - 1

\* the character c written n times
Rep(c, n) == [i \in 1..n |-> c]

RECURSIVE trimStart(_)
trimStart(s) ==
  IF s # <<>> /\ IsSpace(Head(s)) THEN trimStart(Tail(s)) ELSE s

RECURSIVE trimEnd(_)
trimEnd(s) ==
  IF s # <<>> /\ IsSpace(s[Len(s)]) THEN trimEnd(SubSeq(s, 1, Len(s) - 1)) ELSE s

\* String.prototype.trim
trim(s) == trimEnd(trimStart(s))

\* s.replace(/\D/g, '')
stripNonDigits(s) == SelectSeq(s, IsDigit)

\* s.slice(-n)
sliceLast(s, n) == IF Len(s) <= n THEN s ELSE SubSeq(s, Len(s) - n + 1, Len(s))

\* length of the longest run of digits of s that starts at position i
RECURSIVE digitRun(_, _)
digitRun(s, i) ==
  IF i <= Len(s) /\ IsDigit(s[i]) THEN 1 + digitRun(s, i + 1) ELSE 0

\* the number a run of digits denotes
RECURSIVE digitsToNat(_)
digitsToNat(d) ==
  IF d = <<>> THEN 0
  ELSE 10 * digitsToNat(SubSeq(d, 1, Len(d) - 1)) + DigitValue(d[Len(d)])

RECURSIVE natToDigits(_)
natToDigits(n) ==
  IF n < 10 THEN <<DigitChars[n + 1]>>
  ELSE natToDigits(n \div 10) \o <<DigitChars[(n % 10) + 1]>>

\* a fraction's digits without its trailing zeros
RECURSIVE dropTrailingZeros(_)
dropTrailingZeros(d) ==
  IF d # <<>> /\ d[Len(d)] = "0" THEN dropTrailingZeros(SubSeq(d, 1, Len(d) - 1))
  ELSE d

(***************************************************************************)
(* JavaScript values.                                                      *)
(***************************************************************************)
Undefined == [t |-> "undef"]
Null == [t |-> "null"]
Str(s) == [t |-> "str", s |-> s]
Bool(b) == [t |-> "bool", b |-> b]
Arr(a) == [t |-> "arr", a |-> a]
\* a finite number: sign, integer part, fraction digits (no trailing zeros)
Num(neg, int, frac) == [t |-> "num", neg |-> neg, int |-> int, frac |-> frac]
NaN == [t |-> "nan"]
Infinity == [t |-> "inf"]

IsZero(n) == n.t = "num" /\ n.int = 0 /\ n.frac = <<>>

\* n > 0 and n > k for a number value n and a natural k (false of NaN)
Greater(n, k) ==
  /\ n.t = "num"
  /\ ~n.neg
  /\ \/ n.int > k
     \/ n.int = k /\ n.frac # <<>>

\* Number.isFinite
isFinite(n) == n.t = "num"

\* Number::toString of a finite number in the plain decimal range
numberToString(n) ==
  IF IsZero(n) THEN <<"0">>
  ELSE (IF n.neg THEN <<"-">> ELSE <<>>)
       \o natToDigits(n.int)
       \o (IF n.frac = <<>> THEN <<>> ELSE <<".">> \o n.frac)

InfinityText == <<"I", "n", "f", "i", "n", "i", "t", "y">>

RECURSIVE join(_)
join(a) ==
  IF a = <<>> THEN <<>>
  ELSE IF Len(a) = 1 THEN a[1]
  ELSE a[1] \o <<",">> \o join(Tail(a))

\* String(v)
String(v) ==
  CASE v.t = "undef" -> <<"u", "n", "d", "e", "f", "i", "n", "e", "d">>
    [] v.t = "null" -> <<"n", "u", "l", "l">>
    [] v.t = "str" -> v.s
    [] v.t = "bool" -> IF v.b THEN <<"t", "r", "u", "e">>
                       ELSE <<"f", "a", "l", "s", "e">>
    [] v.t = "num" -> numberToString(v)
    [] v.t = "nan" -> <<"N", "a", "N">>
    [] v.t = "inf" -> InfinityText
    [] v.t = "arr" -> join(v.a)

\* !v
Falsy(v) ==
  \/ v.t \in {"undef", "null", "nan"}
  \/ v.t = "str" /\ v.s = <<>>
  \/ v.t = "bool" /\ ~v.b
  \/ IsZero(v)

\* the sign and digits parseFloat and parseInt read after leading white space
SignLen(s) == IF s # <<>> /\ Head(s) \in {"+", "-"} THEN 1 ELSE 0

\* Number.parseFloat(v): the longest decimal prefix of String(v), or NaN.
\* The texts explored carry no exponent part.
parseFloat(v) ==
  LET s == trimStart(String(v))
      sg == SignLen(s)
      il == digitRun(s, sg + 1)
      dot == sg + il + 1 <= Len(s) /\ s[sg + il + 1] = "."
      fl == IF dot THEN digitRun(s, sg + il + 2) ELSE 0
  IN IF Len(s) >= sg + 8 /\ SubSeq(s, sg + 1, sg + 8) = InfinityText THEN Infinity
     ELSE IF il = 0 /\ fl = 0 THEN NaN
     ELSE Num(sg = 1 /\ s[1] = "-",
              digitsToNat(SubSeq(s, sg + 1, sg + il)),
              dropTrailingZeros(SubSeq(s, sg + il + 2, sg + il + 1 + fl)))

\* Number.parseInt(v, 10): the longest integer prefix of String(v), or NaN
parseInt(v) ==
  LET s == trimStart(String(v))
      sg == SignLen(s)
      il == digitRun(s, sg + 1)
  IN IF il = 0 THEN NaN
     ELSE Num(sg = 1 /\ s[1] = "-", digitsToNat(SubSeq(s, sg + 1, sg + il)), <<>>)

(***************************************************************************)
(* Date normalisation.                                                     *)
(***************************************************************************)
\* s.split(sep)
RECURSIVE split(_, _)
split(s, sep) ==
  LET hits == {i \in 1..Len(s) : s[i] = sep}
  IN IF hits = {} THEN <<s>>
     ELSE LET i == CHOOSE k \in hits : \A j \in hits : k <= j
          IN <<SubSeq(s, 1, i - 1)>> \o split(SubSeq(s, i + 1, Len(s)), sep)

\* s.padStart(n, c)
padStart(s, n, c) == IF Len(s) >= n THEN s ELSE Rep(c, n - Len(s)) \o s

\* /^\d{a}<sep>\d{b}<sep>\d{c}$/.test(raw)
testDateShape(raw, a, b, c, sep) ==
  /\ Len(raw) = a + b + c + 2
  /\ \A i \in 1..Len(raw) :
       IF i = a + 1 \/ i = a + b + 2 THEN raw[i] = sep ELSE IsDigit(raw[i])

\* day and month exchanged in the template
canonicalDate_swapped(year, month, day) ==
  year \o <<"-">> \o padStart(day, 2, "0") \o <<"-">> \o padStart(month, 2, "0")

\* the template written with another separator
canonicalDate_slashes(year, month, day) ==
  year \o <<"/">> \o padStart(month, 2, "0") \o <<"/">> \o padStart(day, 2, "0")

\* `${year}-${month.padStart(2, '0')}-${day.padStart(2, '0')}`
canonicalDate(year, month, day) ==
  year \o <<"-">> \o padStart(month, 2, "0") \o <<"-">> \o padStart(day, 2, "0")

\* the first pattern with its separators left unescaped (any character)
normalizeCheckinDate_unescaped(dateValue) ==
  IF Falsy(dateValue) THEN Null
  ELSE LET raw == trim(String(dateValue))
       IN IF raw = <<>> THEN Null
          ELSE IF \E sep \in {"-", ".", "/"} : testDateShape(raw, 4, 2, 2, sep) THEN Str(raw)
          ELSE IF testDateShape(raw, 2, 2, 4, ".")
            THEN LET p == split(raw, ".") IN Str(canonicalDate(p[3], p[2], p[1]))
          ELSE IF testDateShape(raw, 2, 2, 4, "-")
            THEN LET p == split(raw, "-") IN Str(canonicalDate(p[3], p[2], p[1]))
          ELSE IF testDateShape(raw, 4, 2, 2, ".")
            THEN LET p == split(raw, ".") IN Str(canonicalDate(p[1], p[2], p[3]))
          ELSE Null

normalizeCheckinDate(dateValue) ==
  IF Falsy(dateValue) THEN Null
  ELSE LET raw == trim(String(dateValue))
       IN IF raw = <<>> THEN Null
          ELSE IF testDateShape(raw, 4, 2, 2, "-") THEN Str(raw)
          ELSE IF testDateShape(raw, 2, 2, 4, ".")
            THEN LET p == split(raw, ".") IN Str(canonicalDate(p[3], p[2], p[1]))
          ELSE IF testDateShape(raw, 2, 2, 4, "-")
            THEN LET p == split(raw, "-") IN Str(canonicalDate(p[3], p[2], p[1]))
          ELSE IF testDateShape(raw, 4, 2, 2, ".")
            THEN LET p == split(raw, ".") IN Str(canonicalDate(p[1], p[2], p[3]))
          ELSE Null

\* Number.isNaN(Date.parse(text)) for a text of the shape YYYY-MM-DD, as the
\* date parser of the Node.js runtime (V8) decides it: the month must be in
\* 1..12 and the day in 1..31; the day is not compared with the month's
\* length (a day beyond it rolls over into the next month).
dateParseIsNaN(text) ==
  LET month == digitsToNat(SubSeq(text, 6, 7))
      day == digitsToNat(SubSeq(text, 9, 10))
  IN ~(month \in 1..12 /\ day \in 1..31)

ProductionText == <<"p", "r", "o", "d", "u", "c", "t", "i", "o", "n">>
DevelopmentText == <<"d", "e", "v", "e", "l", "o", "p", "m", "e", "n", "t">>

(***************************************************************************)
(* POST /api/guests                                                        *)
(***************************************************************************)
\* the query issued before the checks: every reply follows an INSERT
Reply_insertFirst(status, message, data, queries) ==
  [status |-> status, message |-> message, data |-> data,
   calls |-> IF queries = <<>> THEN <<[op |-> "INSERT guests", values |-> data]>>
             ELSE queries]

Reply(status, message, data, queries) ==
  [status |-> status, message |-> message, data |-> data, calls |-> queries]

\* the response of a catch block: error.message only in development mode
errorMessage(nodeEnv, generic) ==
  IF nodeEnv = DevelopmentText THEN "error.message" ELSE generic

\* String(guest_phone).replace(/\D/g, '')
normalizedPhoneDigits(phone) == stripNonDigits(String(phone))

\* the check left out, as in the handlers without validation
phoneTooShort_unchecked(digits) == FALSE

\* normalizedPhoneDigits.length < 10
phoneTooShort(digits) == Len(digits) < PhoneDigits

\* slice(0, 10) in place of slice(-10)
phoneToStore_first(digits) ==
  IF Len(digits) <= PhoneDigits THEN digits ELSE SubSeq(digits, 1, PhoneDigits)

\* normalizedPhoneDigits.slice(-10)
phoneToStore(digits) == sliceLast(digits, PhoneDigits)

\* the value converted to text but not trimmed
sanitized_untrimmed(v) == String(v)

\* String(v).trim()
sanitized(v) == trim(String(v))

\* String(loyalty_level || '').trim()
loyaltySanitized(v) == IF Falsy(v) THEN <<>> ELSE trim(String(v))

\* the upper limit excluded: amount >= 1_000_000
amountRejected_exclusive(amount) ==
  ~isFinite(amount) \/ ~Greater(amount, 0) \/ Greater(amount, MaxAmount)
  \/ (amount.int = MaxAmount /\ amount.frac = <<>>)

\* !Number.isFinite(amount) || amount <= 0 || amount > 1_000_000
amountRejected(amount) ==
  ~isFinite(amount) \/ ~Greater(amount, 0) \/ Greater(amount, MaxAmount)

\* parseInt(bonus_spent) || 0, which keeps a negative value
bonusValue_legacy(raw) ==
  IF isFinite(raw) /\ ~IsZero(raw) THEN raw ELSE Num(FALSE, 0, <<>>)

\* Number.isFinite(bonusValueRaw) && bonusValueRaw > 0 ? bonusValueRaw : 0
bonusValue(raw) == IF isFinite(raw) /\ Greater(raw, 0) THEN raw ELSE Num(FALSE, 0, <<>>)

\* the limit of the bonus left out
bonusRejected_never(bonus) == FALSE

\* bonusValue > 1_000_000
bonusRejected(bonus) == Greater(bonus, MaxBonus)

InsertGuest(values) == [op |-> "INSERT guests", values |-> values]

\* the amount checked right after the required fields, before the phone
postGuests_amountFirst(body, dbOk, nodeEnv) ==
  IF \/ Falsy(body.guest_phone) \/ Falsy(body.last_name) \/ Falsy(body.first_name)
     \/ Falsy(body.shelter_booking_id) \/ Falsy(body.total_amount)
  THEN Reply(400, "required fields", Null, <<>>)
  ELSE
  IF amountRejected(parseFloat(body.total_amount))
  THEN Reply(400, "bad amount", Null, <<>>)
  ELSE
  LET digits == normalizedPhoneDigits(body.guest_phone) IN
  IF phoneTooShort(digits)
  THEN Reply(400, "bad phone", Null, <<>>)
  ELSE
  LET lastNameSanitized == sanitized(body.last_name)
      firstNameSanitized == sanitized(body.first_name)
      bookingSanitized == sanitized(body.shelter_booking_id)
      loyalty == loyaltySanitized(body.loyalty_level)
      normalizedDate == normalizeCheckinDate(body.checkin_date)
  IN
  IF lastNameSanitized = <<>> \/ firstNameSanitized = <<>>
  THEN Reply(400, "empty name", Null, <<>>)
  ELSE IF Len(lastNameSanitized) > MaxNameLength \/ Len(firstNameSanitized) > MaxNameLength
  THEN Reply(400, "name too long", Null, <<>>)
  ELSE IF bookingSanitized = <<>>
  THEN Reply(400, "empty booking", Null, <<>>)
  ELSE IF Len(bookingSanitized) > MaxBookingLength
  THEN Reply(400, "booking too long", Null, <<>>)
  ELSE IF normalizedDate = Null
  THEN Reply(400, "bad date format", Null, <<>>)
  ELSE IF dateParseIsNaN(normalizedDate.s)
  THEN Reply(400, "date not recognised", Null, <<>>)
  ELSE
  LET amount == parseFloat(body.total_amount) IN
  IF amountRejected(amount)
  THEN Reply(400, "bad amount", Null, <<>>)
  ELSE
  LET bonus == bonusValue(parseInt(body.bonus_spent)) IN
  IF bonusRejected(bonus)
  THEN Reply(400, "bonus too large", Null, <<>>)
  ELSE
  LET values == [guest_phone |-> Str(phoneToStore(digits)),
                 last_name |-> Str(lastNameSanitized),
                 first_name |-> Str(firstNameSanitized),
                 checkin_date |-> normalizedDate,
                 loyalty_level |-> IF loyalty = <<>> THEN Null ELSE Str(loyalty),
                 shelter_booking_id |-> Str(bookingSanitized),
                 total_amount |-> amount,
                 bonus_spent |-> bonus]
  IN IF dbOk THEN Reply(200, "guest added", values, <<InsertGuest(values)>>)
     ELSE Reply(500, errorMessage(nodeEnv, "guest insert failed"), Null,
                <<InsertGuest(values)>>)

\* the handler up to its response: the reply and the repository calls issued
postGuests(body, dbOk, nodeEnv) ==
  IF \/ Falsy(body.guest_phone) \/ Falsy(body.last_name) \/ Falsy(body.first_name)
     \/ Falsy(body.shelter_booking_id) \/ Falsy(body.total_amount)
  THEN Reply(400, "required fields", Null, <<>>)
  ELSE
  LET digits == normalizedPhoneDigits(body.guest_phone) IN
  IF phoneTooShort(digits)
  THEN Reply(400, "bad phone", Null, <<>>)
  ELSE
  LET lastNameSanitized == sanitized(body.last_name)
      firstNameSanitized == sanitized(body.first_name)
      bookingSanitized == sanitized(body.shelter_booking_id)
      loyalty == loyaltySanitized(body.loyalty_level)
      normalizedDate == normalizeCheckinDate(body.checkin_date)
  IN
  IF lastNameSanitized = <<>> \/ firstNameSanitized = <<>>
  THEN Reply(400, "empty name", Null, <<>>)
  ELSE IF Len(lastNameSanitized) > MaxNameLength \/ Len(firstNameSanitized) > MaxNameLength
  THEN Reply(400, "name too long", Null, <<>>)
  ELSE IF bookingSanitized = <<>>
  THEN Reply(400, "empty booking", Null, <<>>)
  ELSE IF Len(bookingSanitized) > MaxBookingLength
  THEN Reply(400, "booking too long", Null, <<>>)
  ELSE IF normalizedDate = Null
  THEN Reply(400, "bad date format", Null, <<>>)
  ELSE IF dateParseIsNaN(normalizedDate.s)
  THEN Reply(400, "date not recognised", Null, <<>>)
  ELSE
  LET amount == parseFloat(body.total_amount) IN
  IF amountRejected(amount)
  THEN Reply(400, "bad amount", Null, <<>>)
  ELSE
  LET bonus == bonusValue(parseInt(body.bonus_spent)) IN
  IF bonusRejected(bonus)
  THEN Reply(400, "bonus too large", Null, <<>>)
  ELSE
  LET values == [guest_phone |-> Str(phoneToStore(digits)),
                 last_name |-> Str(lastNameSanitized),
                 first_name |-> Str(firstNameSanitized),
                 checkin_date |-> normalizedDate,
                 loyalty_level |-> IF loyalty = <<>> THEN Null ELSE Str(loyalty),
                 shelter_booking_id |-> Str(bookingSanitized),
                 total_amount |-> amount,
                 bonus_spent |-> bonus]
  IN IF dbOk THEN Reply(200, "guest added", values, <<InsertGuest(values)>>)
     ELSE Reply(500, errorMessage(nodeEnv, "guest insert failed"), Null,
                <<InsertGuest(values)>>)

(***************************************************************************)
(* POST /api/guests of src/server.js and src/unnamed/part_001: the handler *)
(* without validation.                                                     *)
(***************************************************************************)
\* v.includes('.') of a string (a substring) or an array (an element)
includesDot(v) ==
  CASE v.t = "str" -> \E i \in 1..Len(v.s) : v.s[i] = "."
    [] v.t = "arr" -> \E i \in 1..Len(v.a) : v.a[i] = <<".">>

\* the statements of the handler that throw a TypeError: includes() of a
\* value that is neither string nor array, split() of an array, replace()
\* of a phone that is not a string
legacyThrows(body) ==
  \/ /\ ~Falsy(body.checkin_date)
     /\ \/ body.checkin_date.t \notin {"str", "arr"}
        \/ body.checkin_date.t = "arr" /\ includesDot(body.checkin_date)
  \/ body.guest_phone.t # "str"

\* let parsedDate = checkin_date; D.M.Y rewritten when it has two dots
parsedDate(checkin_date) ==
  IF ~Falsy(checkin_date) /\ includesDot(checkin_date)
  THEN LET parts == split(checkin_date.s, ".")
       IN IF Len(parts) = 3
          THEN Str(canonicalDate(parts[3], parts[2], parts[1]))
          ELSE checkin_date
  ELSE checkin_date

\* n || 0
orZero(n) == IF Falsy(n) THEN Num(FALSE, 0, <<>>) ELSE n

\* the handler up to its response: the reply and the repository calls issued
postGuestsLegacy(body, dbOk, nodeEnv) ==
  IF Falsy(body.guest_phone) \/ Falsy(body.last_name) \/ Falsy(body.first_name)
  THEN Reply(400, "required fields", Null, <<>>)
  ELSE IF legacyThrows(body)
  THEN Reply(500, errorMessage(nodeEnv, "guest insert failed"), Null, <<>>)
  ELSE
  LET values == [guest_phone |-> Str(sliceLast(stripNonDigits(body.guest_phone.s), PhoneDigits)),
                 last_name |-> body.last_name,
                 first_name |-> body.first_name,
                 checkin_date |-> parsedDate(body.checkin_date),
                 loyalty_level |-> body.loyalty_level,
                 shelter_booking_id |-> body.shelter_booking_id,
                 total_amount |-> orZero(parseFloat(body.total_amount)),
                 bonus_spent |-> orZero(parseInt(body.bonus_spent))]
  IN IF dbOk THEN Reply(200, "guest added", values, <<InsertGuest(values)>>)
     ELSE Reply(500, errorMessage(nodeEnv, "guest insert failed"), Null,
                <<InsertGuest(values)>>)

(***************************************************************************)
(* GET /api/bonuses/search                                                 *)
(***************************************************************************)
SelectBonus(phone) == [op |-> "SELECT bonuses_balance", values |-> <<phone>>]

\* the query without its ORDER BY: any row of that phone
latestRows_unordered(table, phone) ==
  {table[i] : i \in {k \in 1..Len(table) : table[k].phone = phone}}

\* WHERE phone = $1 ORDER BY last_date_visit DESC LIMIT 1: the rows the
\* query may return (one of the latest rows of that phone, or none)
latestRows(table, phone) ==
  LET mine == {i \in 1..Len(table) : table[i].phone = phone}
  IN {table[i] : i \in {k \in mine :
                          \A j \in mine : table[j].last_date_visit <= table[k].last_date_visit}}

\* the SELECT list: the columns under their response names
selected(row) ==
  [guest_phone |-> row.phone,
   last_name |-> row.last_name,
   first_name |-> row.first_name,
   loyalty_level |-> row.loyalty_level,
   current_balance |-> row.bonus_balances,
   visits_count |-> row.visits_total,
   last_visit_date |-> row.last_date_visit]

\* the replies the handler can give
searchBonuses(query, table, dbOk, nodeEnv) ==
  IF Falsy(query.phone)
  THEN {Reply(400, "phone missing", Null, <<>>)}
  ELSE
  LET digits == normalizedPhoneDigits(query.phone) IN
  IF phoneTooShort(digits)
  THEN {Reply(400, "bad phone format", Null, <<>>)}
  ELSE
  LET normalizedPhone == Str(phoneToStore(digits)) IN
  IF ~dbOk
  THEN {Reply(500, errorMessage(nodeEnv, "search failed"), Null,
              <<SelectBonus(normalizedPhone)>>)}
  ELSE IF latestRows(table, normalizedPhone.s) = {}
  THEN {Reply(200, "", Null, <<SelectBonus(normalizedPhone)>>)}
  ELSE {Reply(200, "", selected(row), <<SelectBonus(normalizedPhone)>>) :
          row \in latestRows(table, normalizedPhone.s)}

(***************************************************************************)
(* Configuration and POST /api/auth.  The repository holds three revisions *)
(* of the server with this route: src/unnamed/part_000 (startup checks,    *)
(* AUTH_DISABLED), src/unnamed/part_001 (DISABLE_AUTH, the hash read on    *)
(* every request) and src/server.js (plain-text reserve passwords).        *)
(***************************************************************************)
Servers == {"part_000", "part_001", "server.js"}

UpperLetters ==
  <<"A", "B", "C", "D", "E", "F", "G", "H", "I", "J", "K", "L", "M",
    "N", "O", "P", "Q", "R", "S", "T", "U", "V", "W", "X", "Y", "Z">>

LowerLetters ==
  <<"a", "b", "c", "d", "e", "f", "g", "h", "i", "j", "k", "l", "m",
    "n", "o", "p", "q", "r", "s", "t", "u", "v", "w", "x", "y", "z">>

\* the lower case letter of each upper case letter
LowerOf == [c \in {UpperLetters[k] : k \in 1..26} |->
              LowerLetters[CHOOSE k \in 1..26 : UpperLetters[k] = c]]

\* String.prototype.toLowerCase, over the Latin letters
toLowerCase(s) ==
  [i \in 1..Len(s) |-> IF s[i] \in DOMAIN LowerOf THEN LowerOf[s[i]] ELSE s[i]]

\* s.replace(/\s+/g, '')
stripSpaces(s) == SelectSeq(s, LAMBDA c : ~IsSpace(c))

startsWith(s, p) == Len(s) >= Len(p) /\ SubSeq(s, 1, Len(p)) = p

\* s without its first n characters
dropFirst(s, n) == SubSeq(s, n + 1, Len(s))

\* s.replace(/^(sha-?256[:=]?)/, '')
stripShaPrefix(s) ==
  LET n == IF startsWith(s, <<"s", "h", "a", "-", "2", "5", "6">>) THEN 7
           ELSE IF startsWith(s, <<"s", "h", "a", "2", "5", "6">>) THEN 6
           ELSE 0
  IN IF n = 0 THEN s
     ELSE IF Len(s) > n /\ s[n + 1] \in {":", "="} THEN dropFirst(s, n + 1)
     ELSE dropFirst(s, n)

\* s.replace(/^0x/, '')
stripHexPrefix(s) == IF startsWith(s, <<"0", "x">>) THEN dropFirst(s, 2) ELSE s

HexChars ==
  <<"0", "1", "2", "3", "4", "5", "6", "7", "8", "9", "a", "b", "c", "d", "e", "f">>

\* the class [a-f0-9] under the flag i
HexDigitChars ==
  {HexChars[i] : i \in 1..16} \cup {"A", "B", "C", "D", "E", "F"}

IsHexDigit(c) == c \in HexDigitChars

\* the length of a SHA-256 digest written in hexadecimal
DigestLength == 64

\* /^[a-f0-9]{64}$/i.test(s)
testDigestShape(s) == Len(s) = DigestLength /\ \A i \in 1..Len(s) : IsHexDigit(s[i])

\* hashValue.trim().toLowerCase().replace(/\s+/g, ''), the two prefixes removed
normalizedHashText(hashValue) ==
  stripHexPrefix(stripShaPrefix(stripSpaces(toLowerCase(trim(hashValue.s)))))

\* normalizeHash of part_000: undefined unless 64 hexadecimal digits remain
normalizeHash(hashValue) ==
  IF hashValue.t # "str" THEN Undefined
  ELSE LET normalized == normalizedHashText(hashValue)
       IN IF ~testDigestShape(normalized) THEN Undefined ELSE Str(normalized)

\* normalizeHash of part_001 and server.js: the shape is not tested
normalizeHashInline(hashValue) ==
  IF hashValue.t # "str" THEN Undefined ELSE Str(normalizedHashText(hashValue))

\* the characters of the texts hashed, each at the position that stands for
\* its code
CodeChars ==
  <<"\t", "\n", " ", ",", "-", ".", "A", "B", "C">> \o LowerLetters \o DigitChars

CodeOf == [c \in {CodeChars[i] : i \in 1..Len(CodeChars)} |->
             CHOOSE i \in 1..Len(CodeChars) : CodeChars[i] = c]

\* a byte in two hexadecimal digits
hex2(n) == <<HexChars[(n \div 16) + 1], HexChars[(n % 16) + 1]>>

RECURSIVE hexOfText(_)
hexOfText(s) == IF s = <<>> THEN <<>> ELSE hex2(CodeOf[Head(s)]) \o hexOfText(Tail(s))

\* crypto.createHash('sha256').update(str, 'utf8').digest('hex'): 64 lower
\* case hexadecimal digits fixed by the text.  SHA-256 itself is not
\* computed; a collision-free map of the short texts explored stands for it.
sha256(str) == hexOfText(str) \o Rep("0", DigestLength - 2 * Len(str))

\* v || d
OrElse(v, d) == IF Falsy(v) THEN d ELSE v

TrueText == <<"t", "r", "u", "e">>
InfoText == <<"i", "n", "f", "o">>
SilentText == <<"s", "i", "l", "e", "n", "t">>
DebugText == <<"d", "e", "b", "u", "g">>

\* the flag read without lower-casing it
authDisabledFlag_caseSensitive(v) == String(OrElse(v, Str(<<>>))) = TrueText

\* String(process.env.X || '').toLowerCase() === 'true'
authDisabledFlag(v) == toLowerCase(String(OrElse(v, Str(<<>>)))) = TrueText

\* AUTH_DISABLED of the server: part_000 reads AUTH_DISABLED, part_001 reads
\* DISABLE_AUTH, server.js has no such switch
AUTH_DISABLED(srv, e) ==
  CASE srv = "part_000" -> authDisabledFlag(e.AUTH_DISABLED)
    [] srv = "part_001" -> authDisabledFlag(e.DISABLE_AUTH)
    [] srv = "server.js" -> FALSE

\* process.env.LOG_LEVEL || 'info'
LOG_LEVEL(e) == String(OrElse(e.LOG_LEVEL, Str(InfoText)))

\* the revisions of the server: the three with POST /api/auth and the two
\* older ones kept in src/server.js after the first
Revisions == Servers \cup {"server.js (2)", "server.js (3)"}

\* process.env.NODE_ENV || 'production'; the third revision of server.js
\* falls back to 'development', the second reads no such constant
nodeEnv(srv, e) ==
  String(OrElse(e.NODE_ENV,
                Str(IF srv = "server.js (3)" THEN DevelopmentText ELSE ProductionText)))

\* PASSWORD_HASH of part_000, set once at startup
PASSWORD_HASH(e) == normalizeHash(e.PASSWORD_HASH)

\* what a handler does besides answering: digests computed, configuration
\* read, comparisons made, console lines written
Effect(op, text, steps) == [op |-> op, text |-> text, steps |-> steps]

AuthReply(status, message, effects) ==
  [status |-> status, message |-> message, trace |-> effects]

\* the check of PASSWORD_HASH left out of the startup checks
startupExits_hashUnchecked(srv, e) ==
  srv = "part_000" /\ Falsy(e.DATABASE_URL)

\* the startup checks of part_000; the other revisions have none
startupExits(srv, e) ==
  /\ srv = "part_000"
  /\ \/ Falsy(e.DATABASE_URL)
     \/ ~AUTH_DISABLED(srv, e) /\ Falsy(PASSWORD_HASH(e))

\* a password of any type let through
passwordMissing_loose(password) == Falsy(password)

\* !password || typeof password !== 'string'
passwordMissing(password) == Falsy(password) \/ password.t # "str"

\* the trimmed form left out
candidatePasswords_rawOnly(rawPassword, trimmedPassword) == <<rawPassword>>

\* Array.from(new Set([rawPassword, trimmedPassword].filter(...)))
candidatePasswords(rawPassword, trimmedPassword) ==
  IF rawPassword = trimmedPassword THEN <<rawPassword>>
  ELSE SelectSeq(<<rawPassword, trimmedPassword>>, LAMBDA pw : Len(pw) > 0)

\* the code units a === b examines for two strings, as the runtime compares
\* them: strings of different length are unequal at once, otherwise the
\* units are compared in order up to the first pair that differs
strictEqualsSteps(a, b) ==
  IF Len(a) # Len(b) THEN 0
  ELSE IF a = b THEN Len(a)
  ELSE CHOOSE i \in 1..Len(a) : a[i] # b[i] /\ \A j \in 1..(i - 1) : a[j] = b[j]

\* candidates.some((c) => c === secret) for values c and a text secret: the
\* candidates are compared in order up to the first that is equal
someEquals(candidates, secret) ==
  LET hits == {i \in 1..Len(candidates) : candidates[i] = Str(secret)}
      last == IF hits = {} THEN Len(candidates)
              ELSE CHOOSE i \in hits : \A j \in hits : i <= j
  IN [found |-> hits # {},
      trace |-> [i \in 1..last |->
                   IF candidates[i].t = "str"
                   THEN Effect("compare", candidates[i].s,
                               strictEqualsSteps(candidates[i].s, secret))
                   ELSE Effect("compare", <<>>, 0)]]

\* candidatePasswords.map(pw => sha256(pw))
hashing(candidates) == [i \in 1..Len(candidates) |-> Effect("sha256", candidates[i], 0)]

ReadPasswordHash == Effect("read PASSWORD_HASH", <<>>, 0)

\* POST /api/auth of part_000
postAuth(e, body) ==
  LET password == body.password IN
  IF AUTH_DISABLED("part_000", e)
  THEN AuthReply(200, "auth disabled", <<>>)
  ELSE IF passwordMissing(password)
  THEN AuthReply(400, "password required", <<>>)
  ELSE
  LET rawPassword == String(password)
      trimmedPassword == trim(rawPassword)
  IN
  IF trimmedPassword = <<>>
  THEN AuthReply(400, "password required", <<>>)
  ELSE
  LET candidates == candidatePasswords(rawPassword, trimmedPassword)
      candidateHashes == [i \in 1..Len(candidates) |-> sha256(candidates[i])]
      configured == PASSWORD_HASH(e)
  IN
  IF Falsy(configured)
  THEN AuthReply(500, "server configuration",
                 hashing(candidates) \o <<ReadPasswordHash, Effect("console.error", <<>>, 0)>>)
  ELSE
  LET hashMatches ==
        someEquals([i \in 1..Len(candidates) |-> normalizeHash(Str(candidateHashes[i]))],
                   configured.s)
  IN IF hashMatches.found
     THEN AuthReply(200, "access granted",
                    hashing(candidates) \o <<ReadPasswordHash>> \o hashMatches.trace)
     ELSE AuthReply(401, "wrong password",
                    hashing(candidates) \o <<ReadPasswordHash>> \o hashMatches.trace)

\* POST /api/auth of part_001
postAuthPart001(e, body) ==
  IF AUTH_DISABLED("part_001", e)
  THEN AuthReply(200, "auth disabled",
                 IF LOG_LEVEL(e) # SilentText THEN <<Effect("console.warn", <<>>, 0)>>
                 ELSE <<>>)
  ELSE
  LET password == body.password IN
  IF passwordMissing(password)
  THEN AuthReply(400, "password required", <<>>)
  ELSE
  LET rawPassword == String(password)
      trimmedPassword == trim(rawPassword)
  IN
  IF trimmedPassword = <<>>
  THEN AuthReply(400, "password required", <<>>)
  ELSE
  LET candidates == candidatePasswords(rawPassword, trimmedPassword)
      candidateHashes == [i \in 1..Len(candidates) |-> sha256(candidates[i])]
      VALID_HASH == normalizeHashInline(e.PASSWORD_HASH)
  IN
  IF Falsy(VALID_HASH)
  THEN AuthReply(500, "server configuration",
                 hashing(candidates) \o <<ReadPasswordHash, Effect("console.error", <<>>, 0)>>)
  ELSE
  LET hashMatches ==
        someEquals([i \in 1..Len(candidates) |-> Str(candidateHashes[i])], VALID_HASH.s)
  IN IF hashMatches.found
     THEN AuthReply(200, "access granted",
                    hashing(candidates) \o <<ReadPasswordHash>> \o hashMatches.trace)
     ELSE AuthReply(401, "wrong password",
                    hashing(candidates) \o <<ReadPasswordHash>> \o hashMatches.trace)

RECURSIVE flatten(_)
flatten(ss) == IF ss = <<>> THEN <<>> ELSE Head(ss) \o flatten(Tail(ss))

\* the reserve passwords of server.js: each non-empty one of AUTH_PASSWORD,
\* ADMIN_PASSWORD and PASSWORD, followed by its trimmed form when that differs
legacySecrets(e) ==
  LET given == SelectSeq(<<e.AUTH_PASSWORD, e.ADMIN_PASSWORD, e.PASSWORD>>,
                         LAMBDA secret : secret.t = "str" /\ Len(secret.s) > 0)
  IN flatten([i \in 1..Len(given) |->
                IF trim(given[i].s) # <<>> /\ trim(given[i].s) # given[i].s
                THEN <<given[i].s, trim(given[i].s)>>
                ELSE <<given[i].s>>])

\* candidatePasswords.some(pw => legacySecrets.includes(pw))
legacyCompare(candidates, secrets) ==
  LET texts == [i \in 1..Len(secrets) |-> Str(secrets[i])]
      hits == {i \in 1..Len(candidates) : someEquals(texts, candidates[i]).found}
      last == IF hits = {} THEN Len(candidates)
              ELSE CHOOSE i \in hits : \A j \in hits : i <= j
  IN [found |-> hits # {},
      trace |-> flatten([i \in 1..last |-> someEquals(texts, candidates[i]).trace])]

\* POST /api/auth of server.js
postAuthServerJs(e, body) ==
  LET password == body.password IN
  IF passwordMissing(password)
  THEN AuthReply(400, "password required", <<>>)
  ELSE
  LET rawPassword == String(password)
      trimmedPassword == trim(rawPassword)
  IN
  IF trimmedPassword = <<>>
  THEN AuthReply(400, "password required", <<>>)
  ELSE
  LET candidates == candidatePasswords(rawPassword, trimmedPassword)
      candidateHashes == [i \in 1..Len(candidates) |-> sha256(candidates[i])]
      VALID_HASH == normalizeHashInline(e.PASSWORD_HASH)
      secrets == legacySecrets(e)
  IN
  IF Falsy(VALID_HASH) /\ Len(secrets) = 0
  THEN AuthReply(500, "server configuration",
                 hashing(candidates) \o <<ReadPasswordHash, Effect("console.error", <<>>, 0)>>)
  ELSE
  LET hashMatches ==
        IF ~Falsy(VALID_HASH)
        THEN someEquals([i \in 1..Len(candidates) |-> Str(candidateHashes[i])], VALID_HASH.s)
        ELSE [found |-> FALSE, trace |-> <<>>]
      legacyMatches ==
        IF Len(secrets) > 0 THEN legacyCompare(candidates, secrets)
        ELSE [found |-> FALSE, trace |-> <<>>]
      effects == hashing(candidates) \o <<ReadPasswordHash>>
                   \o hashMatches.trace \o legacyMatches.trace
  IN IF hashMatches.found \/ legacyMatches.found
     THEN AuthReply(200, "access granted", effects)
     ELSE AuthReply(401, "wrong password", effects)

\* POST /api/auth of the server that runs
apiAuth(srv, e, body) ==
  CASE srv = "part_000" -> postAuth(e, body)
    [] srv = "part_001" -> postAuthPart001(e, body)
    [] srv = "server.js" -> postAuthServerJs(e, body)

\* the endpoint answering that no authentication is disabled
apiConfig_hidden(srv, e) ==
  IF srv = "server.js" THEN Reply(404, "route not found", Null, <<>>)
  ELSE Reply(200, "", [authDisabled |-> FALSE], <<>>)

\* GET /api/config; server.js has no such route and answers 404
apiConfig(srv, e) ==
  IF srv = "server.js" THEN Reply(404, "route not found", Null, <<>>)
  ELSE Reply(200, "", [authDisabled |-> AUTH_DISABLED(srv, e)], <<>>)

(***************************************************************************)
(* The loyalty tier resolver.                                              *)
(***************************************************************************)
Tier(canonical, display) == [canonical |-> canonical, display |-> display]

\* the ordered tier table: the canonical lower case form and the display form
TierTable ==
  <<Tier(<<"1", " ", "s", "e", "a", "s", "o", "n">>,
         <<"1", " ", "S", "E", "A", "S", "O", "N">>),
    Tier(<<"2", " ", "s", "e", "a", "s", "o", "n", "s">>,
         <<"2", " ", "S", "E", "A", "S", "O", "N", "S">>),
    Tier(<<"3", " ", "s", "e", "a", "s", "o", "n", "s">>,
         <<"3", " ", "S", "E", "A", "S", "O", "N", "S">>),
    Tier(<<"4", " ", "s", "e", "a", "s", "o", "n", "s">>,
         <<"4", " ", "S", "E", "A", "S", "O", "N", "S">>)>>

\* every run of white space replaced by one blank
RECURSIVE collapseSpaces(_)
collapseSpaces(s) ==
  IF s = <<>> THEN <<>>
  ELSE IF ~IsSpace(Head(s)) THEN <<Head(s)>> \o collapseSpaces(Tail(s))
  ELSE IF Len(s) > 1 /\ IsSpace(s[2]) THEN collapseSpaces(Tail(s))
  ELSE <<" ">> \o collapseSpaces(Tail(s))

\* trim, lower-case, collapse the inner white space
normalizeTierLabel(currentLabel) == collapseSpaces(toLowerCase(trim(currentLabel)))

\* the tier found returned as it is
nextTier_current(currentLabel) ==
  LET label == normalizeTierLabel(currentLabel)
      found == {i \in 1..Len(TierTable) : TierTable[i].canonical = label}
  IN IF found = {} THEN TierTable[1].display
     ELSE TierTable[CHOOSE i \in found : TRUE].display

\* nextTier(currentLabel): the display form of the tier after the one found,
\* the last tier for the last, the first tier for a label that is not found
nextTier(currentLabel) ==
  LET label == normalizeTierLabel(currentLabel)
      found == {i \in 1..Len(TierTable) : TierTable[i].canonical = label}
      lastIndex == Len(TierTable)
  IN IF found = {} THEN TierTable[1].display
     ELSE LET i == CHOOSE k \in found : TRUE
          IN TierTable[IF i + 1 <= lastIndex THEN i + 1 ELSE lastIndex].display

(***************************************************************************)
(* The requests explored.  Each family lets one field range over a rich    *)
(* set of values inside a few complete payloads; Combos crosses a good and *)
(* a bad value of every field.                                             *)
(***************************************************************************)
T(n) == natToDigits(n)
Pad(n) == Rep(" ", n)
Pads == 0..MaxPad
Padded(cores) == {Pad(l) \o c \o Pad(r) : l \in Pads, r \in Pads, c \in cores}
Whole(n) == Num(FALSE, n, <<>>)

Texts(chars, maxLen) == UNION {[1..n -> chars] : n \in 0..maxLen}

FormattedPhone ==
  <<"(", "9", "1", "6", ")", " ", "1", "2", "3", "-", "4", "5", "-", "6", "7">>

PhoneBodies ==
  {<<>>, T(91612345), T(916123456), T(91612) \o T(34567), FormattedPhone}

PhoneValues ==
  {Str(h \o b) : h \in Texts({"+", "7", "8", " "}, MaxHead), b \in PhoneBodies}
  \cup {Undefined, Null, Bool(TRUE), Whole(12345), Whole(0),
        Arr(<<T(91612), T(34567)>>), Arr(<<T(916)>>)}

NameValues ==
  {Str(s) : s \in Padded({<<>>, <<"a">>, <<"a", " ", "b">>,
                          Rep("a", MaxNameLength), Rep("a", MaxNameLength + 1)})}
  \cup {Str(<<"\t", "a", "\n">>), Undefined, Null, Bool(TRUE), Whole(5),
        Arr(<<>>), Arr(<<<<"a">>, <<"b">>>>)}

BookingValues ==
  {Str(s) : s \in Padded({<<>>, <<"B", "7">>,
                          Rep("B", MaxBookingLength), Rep("B", MaxBookingLength + 1)})}
  \cup {Undefined, Null, Whole(77), Arr(<<>>)}

LoyaltyValues ==
  {Str(s) : s \in Padded({<<>>, <<"2", " ", "S">>, <<"4", " ", " ", "s">>,
                          Rep("S", 120), Rep("S", 121)})}
  \cup {Undefined, Null, Bool(FALSE), Bool(TRUE), Whole(0), Whole(2),
        Arr(<<>>), Arr(<<<<"2", " ", "S">>>>)}

Years == {T(2023), T(2024)}
Months == {<<"0", "0">>, <<"0", "2">>, <<"0", "4">>, <<"1", "2">>, <<"1", "3">>}
Days == {<<"0", "0">>, <<"0", "1">>, <<"2", "8">>, <<"2", "9">>, <<"3", "0">>,
         <<"3", "1">>, <<"3", "2">>}
Separators == {"-", ".", "/"}

WrittenDate(a, b, c, sep) == a \o <<sep>> \o b \o <<sep>> \o c

DateValues ==
  {Str(s) : s \in Padded(
      {WrittenDate(y, m, d, sep) : y \in Years, m \in Months, d \in Days, sep \in Separators}
      \cup {WrittenDate(d, m, y, sep) : y \in Years, m \in Months, d \in Days, sep \in Separators}
      \cup {<<>>,
            WrittenDate(<<"5">>, <<"3">>, T(2024), "."),
            WrittenDate(T(2024), <<"3">>, <<"5">>, "-"),
            WrittenDate(<<"2", "4">>, <<"0", "3">>, <<"0", "5">>, "-"),
            T(2024) \o <<"-", "0", "3", ".", "0", "5">>,
            T(20240305),
            WrittenDate(T(2024), <<"0", "3">>, <<"0", "5">>, "-") \o <<"T">>})}
  \cup {Undefined, Null, Bool(TRUE), Whole(20240305),
        Arr(<<WrittenDate(T(2024), <<"0", "3">>, <<"0", "5">>, "-")>>)}

Signs == {<<>>, <<"-">>, <<"+">>}
Suffixes == {<<>>, <<"x">>}

AmountValues ==
  {Str(Pad(l) \o sg \o i \o f \o x \o Pad(r)) :
     l \in Pads, r \in Pads, sg \in Signs, x \in Suffixes,
     i \in {<<>>, <<"0">>, <<"1">>, T(999999), T(MaxAmount), T(MaxAmount + 1)},
     f \in {<<>>, <<".">>, <<".", "0">>, <<".", "0", "1">>, <<".", "5">>}}
  \cup {Num(neg, i, f) : neg \in BOOLEAN, i \in {0, 1, 1500, MaxAmount, MaxAmount + 1},
                         f \in {<<>>, <<"0", "1">>, <<"5">>}}
  \cup {Undefined, Null, Bool(TRUE), Arr(<<<<"5">>, <<"7">>>>), Str(InfinityText)}

BonusValues ==
  {Str(Pad(l) \o sg \o i \o f \o x \o Pad(r)) :
     l \in Pads, r \in Pads, sg \in Signs, x \in Suffixes,
     i \in {<<>>, <<"0">>, <<"7">>, T(MaxBonus), T(MaxBonus + 1)},
     f \in {<<>>, <<".", "9">>}}
  \cup {Num(neg, i, f) : neg \in BOOLEAN, i \in {0, 7, MaxBonus, MaxBonus + 1},
                         f \in {<<>>, <<"9">>}}
  \cup {Undefined, Null, Bool(TRUE), Arr(<<>>), Str(InfinityText)}

ValidBody ==
  [guest_phone |-> Str(<<"+", "7", " ">> \o FormattedPhone),
   last_name |-> Str(<<"L", "e", "e">>),
   first_name |-> Str(<<"A", "n", "n">>),
   checkin_date |-> Str(WrittenDate(<<"0", "5">>, <<"0", "3">>, T(2024), ".")),
   loyalty_level |-> Str(<<"2", " ", "S">>),
   shelter_booking_id |-> Str(<<"B", "7">>),
   total_amount |-> Str(T(1500)),
   bonus_spent |-> Whole(100)]

MinimalBody ==
  [guest_phone |-> Str(<<"8">> \o T(91612) \o T(34567)),
   last_name |-> Str(<<"L", "e", "e">>),
   first_name |-> Str(<<"A", "n", "n">>),
   checkin_date |-> Str(WrittenDate(T(2024), <<"0", "3">>, <<"0", "5">>, "-")),
   loyalty_level |-> Undefined,
   shelter_booking_id |-> Str(<<"B", "7">>),
   total_amount |-> Whole(1500),
   bonus_spent |-> Undefined]

Payloads == {ValidBody, MinimalBody}

Combos ==
  [guest_phone : {ValidBody.guest_phone, Str(T(12345)), Undefined},
   last_name : {ValidBody.last_name, Str(Rep("a", MaxNameLength + 1))},
   first_name : {ValidBody.first_name, Str(<<" ">>)},
   checkin_date : {ValidBody.checkin_date, Str(T(20240305)),
                   Str(T(2024) \o <<"-">> \o <<"1", "3">> \o <<"-">> \o <<"0", "1">>)},
   loyalty_level : {ValidBody.loyalty_level, Undefined},
   shelter_booking_id : {ValidBody.shelter_booking_id, Str(Rep("B", MaxBookingLength + 1)),
                         Str(<<" ">>)},
   total_amount : {ValidBody.total_amount, Str(<<"-", "1">>)},
   bonus_spent : {ValidBody.bonus_spent, Whole(MaxBonus + 1)}]

GuestBodies ==
  {[b EXCEPT !.guest_phone = v] : b \in Payloads, v \in PhoneValues}
  \cup {[b EXCEPT !.last_name = v, !.first_name = w] :
          b \in Payloads, v \in NameValues, w \in NameValues}
  \cup {[b EXCEPT !.shelter_booking_id = v] : b \in Payloads, v \in BookingValues}
  \cup {[b EXCEPT !.checkin_date = v] : b \in Payloads, v \in DateValues}
  \cup {[b EXCEPT !.total_amount = v] : b \in Payloads, v \in AmountValues}
  \cup {[b EXCEPT !.bonus_spent = v] : b \in Payloads, v \in BonusValues}
  \cup {[b EXCEPT !.loyalty_level = v] : b \in Payloads, v \in LoyaltyValues}
  \cup Combos

SearchQueries == {[phone |-> v] : v \in PhoneValues}

BonusRow(phone, level, balance, visits, lastVisit) ==
  [phone |-> phone, last_name |-> <<"L", "e", "e">>, first_name |-> <<"A", "n", "n">>,
   loyalty_level |-> level, bonus_balances |-> balance, visits_total |-> visits,
   last_date_visit |-> lastVisit]

\* one phone with two visits, another phone with one and the last tier
SampleBonuses ==
  <<BonusRow(T(91612) \o T(34567), TierTable[1].display, 100, 1, 20240105),
    BonusRow(T(79161) \o T(23456), TierTable[4].display, 900, 5, 20240210),
    BonusRow(T(91612) \o T(34567), TierTable[2].display, 250, 2, 20240301)>>

\* the rows the explored tables are made of: an earlier and a later visit
\* of one phone, a second row of the later day, a row of another phone
RowPool ==
  {BonusRow(T(91612) \o T(34567), TierTable[1].display, 100, 1, 20240105),
   BonusRow(T(91612) \o T(34567), TierTable[2].display, 250, 2, 20240301),
   BonusRow(T(91612) \o T(34567), TierTable[3].display, 300, 3, 20240301),
   BonusRow(T(79161) \o T(23456), TierTable[4].display, 900, 5, 20240210)}

\* the contents of bonuses_balance explored: every row carries a visit date
BonusTables == UNION {[1..n -> RowPool] : n \in 0..MaxRows}

(***************************************************************************)
(* The configurations and passwords explored.                              *)
(***************************************************************************)
ConfiguredPasswords ==
  {<<"a", "b">>, <<"a">>, <<" ", "a", "b">>, <<"a", " ", "b">>, <<" ">>}

\* the digest of "ab" as it may be written in PASSWORD_HASH
WrittenDigest == sha256(<<"a", "b">>)

UpperHex(s) ==
  [i \in 1..Len(s) |->
     IF \E k \in 1..26 : LowerLetters[k] = s[i]
     THEN UpperLetters[CHOOSE k \in 1..26 : LowerLetters[k] = s[i]]
     ELSE s[i]]

HashValues ==
  {Str(sha256(P)) : P \in ConfiguredPasswords}
  \cup {Str(UpperHex(WrittenDigest)),
        Str(<<"s", "h", "a", "2", "5", "6", ":">> \o WrittenDigest),
        Str(<<"S", "H", "A", "-", "2", "5", "6", "=">> \o WrittenDigest),
        Str(<<"0", "x">> \o WrittenDigest),
        Str(<<" ">> \o WrittenDigest \o <<"\n">>),
        Str(SubSeq(WrittenDigest, 1, 32) \o <<" ">> \o SubSeq(WrittenDigest, 33, 64)),
        Str(dropFirst(WrittenDigest, 1)),
        Str(<<"x">> \o dropFirst(WrittenDigest, 1)),
        Str(WrittenDigest \o <<"0">>),
        Str(<<"s", "h", "a", "2", "5", "6", ":">>),
        Str(<<>>),
        Undefined}

FlagValues ==
  {Undefined, Str(<<>>), Str(TrueText), Str(<<"T", "R", "U", "E">>), Str(<<"T", "r", "u", "e">>),
   Str(<<"t", "r", "u", "e", " ">>), Str(<<"f", "a", "l", "s", "e">>), Str(<<"1">>)}

LogLevelValues ==
  {Undefined, Str(SilentText), Str(DebugText), Str(InfoText), Str(<<"S", "I", "L", "E", "N", "T">>)}

DatabaseUrlValues == {Undefined, Str(<<>>), Str(<<"d", "b">>)}

SecretValues == {Undefined, Str(<<>>), Str(<<"a", "b">>), Str(<<" ", "a", "b", " ">>), Str(<<"x">>)}

\* authentication enabled, the hash of "ab" configured
EnabledEnv ==
  [DATABASE_URL |-> Str(<<"d", "b">>),
   PASSWORD_HASH |-> Str(WrittenDigest),
   AUTH_DISABLED |-> Undefined,
   DISABLE_AUTH |-> Undefined,
   LOG_LEVEL |-> Undefined,
   NODE_ENV |-> Undefined,
   RATE_LIMIT_MAX |-> Undefined,
   AUTH_PASSWORD |-> Undefined,
   ADMIN_PASSWORD |-> Undefined,
   PASSWORD |-> Undefined]

\* authentication disabled, no hash configured
DisabledEnv ==
  [EnabledEnv EXCEPT !.AUTH_DISABLED = Str(TrueText), !.DISABLE_AUTH = Str(TrueText),
                     !.PASSWORD_HASH = Undefined]

\* authentication disabled, the hash still configured
DisabledWithHashEnv ==
  [EnabledEnv EXCEPT !.AUTH_DISABLED = Str(TrueText), !.DISABLE_AUTH = Str(TrueText)]

\* the same started in development mode
DevelopmentEnv == [EnabledEnv EXCEPT !.NODE_ENV = Str(DevelopmentText)]

BaseEnvs == {EnabledEnv, DisabledEnv, DisabledWithHashEnv}

Envs ==
  {[e EXCEPT !.PASSWORD_HASH = v] : e \in BaseEnvs, v \in HashValues}
  \cup {[e EXCEPT !.AUTH_DISABLED = v, !.DISABLE_AUTH = v] : e \in BaseEnvs, v \in FlagValues}
  \cup {[e EXCEPT !.AUTH_DISABLED = v] : e \in BaseEnvs, v \in {Undefined, Str(TrueText)}}
  \cup {[e EXCEPT !.DISABLE_AUTH = v] : e \in BaseEnvs, v \in {Undefined, Str(TrueText)}}
  \cup {[e EXCEPT !.LOG_LEVEL = v] : e \in BaseEnvs, v \in LogLevelValues}
  \cup {[e EXCEPT !.DATABASE_URL = v] : e \in BaseEnvs, v \in DatabaseUrlValues}
  \cup {[e EXCEPT !.AUTH_PASSWORD = v, !.PASSWORD_HASH = h] :
          e \in BaseEnvs, v \in SecretValues, h \in {Undefined, Str(WrittenDigest)}}
  \cup {[e EXCEPT !.ADMIN_PASSWORD = v, !.PASSWORD = w, !.PASSWORD_HASH = Undefined] :
          e \in BaseEnvs, v \in {Undefined, Str(<<"a">>)}, w \in {Undefined, Str(<<"a", " ", "b">>)}}

PasswordChars == {"a", "b", "x"}

\* P with one character changed, inserted or deleted, white space left alone
Mutations(P) ==
  ({[P EXCEPT ![i] = c] : i \in {k \in 1..Len(P) : ~IsSpace(P[k])}, c \in PasswordChars}
     \ {P})
  \cup {SubSeq(P, 1, i) \o <<c>> \o SubSeq(P, i + 1, Len(P)) : i \in 0..Len(P), c \in PasswordChars}
  \cup {SubSeq(P, 1, i - 1) \o SubSeq(P, i + 1, Len(P)) : i \in {k \in 1..Len(P) : ~IsSpace(P[k])}}

PasswordValues ==
  {Str(s) : s \in Padded(ConfiguredPasswords)}
  \cup {Str(<<"\t">> \o P \o <<"\n">>) : P \in ConfiguredPasswords}
  \cup {Str(s) : s \in UNION {Mutations(P) : P \in ConfiguredPasswords}}
  \cup {Undefined, Null, Str(<<>>), Str(<<" ">>), Str(<<"\t", "\n">>), Whole(0), Whole(123),
        Bool(TRUE), Bool(FALSE), Arr(<<<<"a", "b">>>>), Arr(<<>>)}

\* req.body of POST /api/auth; a request without a body has no password
AuthBodies == {[password |-> v] : v \in PasswordValues}

(***************************************************************************)
(* The server.                                                             *)
(***************************************************************************)
Init ==
  /\ phase = "idle"
  /\ route = "none"
  /\ req = Null
  /\ res = Null
  /\ calls = <<>>
  /\ server = "part_000"
  /\ env \in {EnabledEnv, DevelopmentEnv}
  /\ NODE_ENV = nodeEnv(server, env)
  /\ bonuses_balance = SampleBonuses
  /\ trace = <<>>
  /\ guests = <<>>
  /\ inflight = <<>>
  /\ limiterHits = 0
  /\ form = Null

Response(o) == [status |-> o.status, message |-> o.message, data |-> o.data]

\* if (LOG_LEVEL === 'debug') console.error(...) in the catch blocks
debugLog(status, e) ==
  IF status = 500 /\ LOG_LEVEL(e) = DebugText THEN <<Effect("console.error", <<>>, 0)>>
  ELSE <<>>

PostApiGuests ==
  /\ phase = "idle"
  /\ \E body \in GuestBodies, dbOk \in BOOLEAN :
       LET o == postGuests(body, dbOk, NODE_ENV)
       IN /\ req' = body
          /\ res' = Response(o)
          /\ calls' = o.calls
          /\ trace' = debugLog(o.status, env)
  /\ phase' = "done"
  /\ route' = "POST /api/guests"
  /\ UNCHANGED <<NODE_ENV, bonuses_balance, server, env, guests, inflight, limiterHits, form>>

GetApiBonusesSearch ==
  /\ phase = "idle"
  /\ \E query \in SearchQueries, dbOk \in BOOLEAN :
       \E o \in searchBonuses(query, bonuses_balance, dbOk, NODE_ENV) :
          /\ req' = query
          /\ res' = Response(o)
          /\ calls' = o.calls
          /\ trace' = debugLog(o.status, env)
  /\ phase' = "done"
  /\ route' = "GET /api/bonuses/search"
  /\ UNCHANGED <<NODE_ENV, bonuses_balance, server, env, guests, inflight, limiterHits, form>>

\* the response has gone out; the server waits for the next request
ResponseSent ==
  /\ phase = "done"
  /\ phase' = "idle"
  /\ route' = "none"
  /\ req' = Null
  /\ res' = Null
  /\ calls' = <<>>
  /\ trace' = <<>>
  /\ UNCHANGED <<NODE_ENV, bonuses_balance, server, env, guests, inflight, limiterHits, form>>

Next == PostApiGuests \/ GetApiBonusesSearch \/ ResponseSent

Spec == Init /\ [][Next]_vars

(***************************************************************************)
(* The bonus lookup over the contents of the table.                        *)
(***************************************************************************)
SearchInit ==
  /\ phase = "idle"
  /\ route = "none"
  /\ req = Null
  /\ res = Null
  /\ calls = <<>>
  /\ server = "part_000"
  /\ env = EnabledEnv
  /\ NODE_ENV = nodeEnv(server, env)
  /\ bonuses_balance \in BonusTables
  /\ trace = <<>>
  /\ guests = <<>>
  /\ inflight = <<>>
  /\ limiterHits = 0
  /\ form = Null

SearchNext == GetApiBonusesSearch \/ ResponseSent

SearchSpec == SearchInit /\ [][SearchNext]_vars

(***************************************************************************)
(* The routes that only read (GET /health, GET /api/guests and             *)
(* GET /api/bonuses) with a repository that may fail, over the five        *)
(* revisions of the server and the values of NODE_ENV.                     *)
(***************************************************************************)
\* error.message of what pool.query throws: no connection, timeout,
\* constraint violation
ErrorTexts ==
  {"connect ECONNREFUSED", "Connection terminated due to connection timeout",
   "violates check constraint"}

\* what pool.query may do: answer, or throw one of the errors
QueryOutcomes == {"ok"} \cup ErrorTexts

Query(text, outcome) == [op |-> text, values |-> <<>>, outcome |-> outcome]

\* the text a catch block puts in its response for a thrown error: the
\* second revision of server.js always sends error.message from /health and
\* never from its other routes; every other catch block sends it when
\* NODE_ENV is 'development'
catchMessage(srv, routeName, nodeEnvText, thrown, generic) ==
  IF srv = "server.js (2)"
  THEN (IF routeName = "GET /health" THEN thrown ELSE generic)
  ELSE IF nodeEnvText = DevelopmentText THEN thrown ELSE generic

\* console.error of a catch block: none in /health, always in the second
\* revision of server.js, under LOG_LEVEL 'debug' elsewhere
catchLog(srv, routeName, e) ==
  IF routeName = "GET /health" THEN <<>>
  ELSE IF srv = "server.js (2)" \/ LOG_LEVEL(e) = DebugText
  THEN <<Effect("console.error", <<>>, 0)>>
  ELSE <<>>

\* GET /health
getHealth(srv, nodeEnvText, outcome) ==
  IF outcome = "ok" THEN Reply(200, "Connected", Null, <<Query("SELECT 1", outcome)>>)
  ELSE Reply(500, catchMessage(srv, "GET /health", nodeEnvText, outcome, "DB connection error"),
             Null, <<Query("SELECT 1", outcome)>>)

\* GET /api/guests: SELECT * FROM guests ORDER BY created_at DESC LIMIT 100
getGuests(srv, nodeEnvText, table, outcome) ==
  IF outcome = "ok"
  THEN Reply(200, "", [i \in 1..Len(table) |-> table[Len(table) + 1 - i]],
             <<Query("SELECT guests", outcome)>>)
  ELSE Reply(500, catchMessage(srv, "GET /api/guests", nodeEnvText, outcome, "guest list failed"),
             Null, <<Query("SELECT guests", outcome)>>)

\* GET /api/bonuses: SELECT * FROM bonuses_balance ORDER BY last_date_visit
\* DESC LIMIT 100
getBonuses(srv, nodeEnvText, table, outcome) ==
  IF outcome = "ok"
  THEN Reply(200, "",
             SortSeq(table, LAMBDA a, b : a.last_date_visit > b.last_date_visit),
             <<Query("SELECT bonuses_balance", outcome)>>)
  ELSE Reply(500, catchMessage(srv, "GET /api/bonuses", nodeEnvText, outcome, "bonus list failed"),
             Null, <<Query("SELECT bonuses_balance", outcome)>>)

TestText == <<"t", "e", "s", "t">>

\* process.env.NODE_ENV: unset, empty, the two known modes, other values
NodeEnvValues ==
  {Undefined, Str(<<>>), Str(ProductionText), Str(DevelopmentText), Str(TestText),
   Str(<<"D">> \o Tail(DevelopmentText))}

ErrorEnvs ==
  {[EnabledEnv EXCEPT !.NODE_ENV = v, !.LOG_LEVEL = l] :
     v \in NodeEnvValues, l \in {Undefined, Str(DebugText)}}

ErrorInit ==
  /\ phase = "idle"
  /\ route = "none"
  /\ req = Null
  /\ res = Null
  /\ calls = <<>>
  /\ server \in Revisions
  /\ env \in ErrorEnvs
  /\ NODE_ENV = nodeEnv(server, env)
  /\ bonuses_balance = SampleBonuses
  /\ trace = <<>>
  /\ guests = <<>>
  /\ inflight = <<>>
  /\ limiterHits = 0
  /\ form = Null

GetHealth ==
  /\ phase = "idle"
  /\ \E outcome \in QueryOutcomes :
       LET o == getHealth(server, NODE_ENV, outcome)
       IN /\ res' = Response(o)
          /\ calls' = o.calls
          /\ trace' = IF o.status = 500 THEN catchLog(server, "GET /health", env) ELSE <<>>
  /\ phase' = "done"
  /\ route' = "GET /health"
  /\ req' = Null
  /\ UNCHANGED <<NODE_ENV, bonuses_balance, server, env, guests, inflight, limiterHits, form>>

GetApiGuests ==
  /\ phase = "idle"
  /\ \E outcome \in QueryOutcomes :
       LET o == getGuests(server, NODE_ENV, guests, outcome)
       IN /\ res' = Response(o)
          /\ calls' = o.calls
          /\ trace' = IF o.status = 500 THEN catchLog(server, "GET /api/guests", env) ELSE <<>>
  /\ phase' = "done"
  /\ route' = "GET /api/guests"
  /\ req' = Null
  /\ UNCHANGED <<NODE_ENV, bonuses_balance, server, env, guests, inflight, limiterHits, form>>

GetApiBonuses ==
  /\ phase = "idle"
  /\ \E outcome \in QueryOutcomes :
       LET o == getBonuses(server, NODE_ENV, bonuses_balance, outcome)
       IN /\ res' = Response(o)
          /\ calls' = o.calls
          /\ trace' = IF o.status = 500 THEN catchLog(server, "GET /api/bonuses", env) ELSE <<>>
  /\ phase' = "done"
  /\ route' = "GET /api/bonuses"
  /\ req' = Null
  /\ UNCHANGED <<NODE_ENV, bonuses_balance, server, env, guests, inflight, limiterHits, form>>

ErrorNext == GetHealth \/ GetApiGuests \/ GetApiBonuses \/ ResponseSent

ErrorSpec == ErrorInit /\ [][ErrorNext]_vars

(***************************************************************************)
(* Concurrent requests.  A request passes the rate limiter and runs its    *)
(* handler up to the await of pool.query; the repository settles the       *)
(* queries in any order; each handler resumes when its own query has       *)
(* settled.  The requests explored come from one client within one window  *)
(* of the limiter.                                                         *)
(***************************************************************************)
\* Number(v) of an environment value: NaN for undefined and for a text that
\* is not a number, 0 for a blank text
toNumber(v) ==
  IF v.t # "str" THEN NaN
  ELSE LET text == trim(v.s)
       IN IF text = <<>> THEN Whole(0)
          ELSE IF \A i \in 1..Len(text) : IsDigit(text[i]) THEN Whole(digitsToNat(text))
          ELSE NaN

\* Number(process.env.RATE_LIMIT_MAX) || 100
RATE_LIMIT_MAX(e) ==
  LET n == toNumber(e.RATE_LIMIT_MAX)
  IN IF Falsy(n) THEN DefaultRateLimitMax ELSE n.int

\* the limiter's answer to a request beyond the limit
tooManyRequests == [status |-> 429, message |-> "too many requests", data |-> Null]

\* a request in flight: its route and body, where its handler stands
\* ("querying": awaiting pool.query; "settled": the query has resolved or
\* thrown; "done": answered), whether the limiter let it through, the
\* INSERTs it issued, whether its query succeeded, and its response
Request(routeName, body, stage, admitted, queries, dbOk, response) ==
  [route |-> routeName, body |-> body, stage |-> stage, admitted |-> admitted,
   queries |-> queries, dbOk |-> dbOk, res |-> response]

\* an INSERT that replaces the row stored under the same phone
insertRow_lastWriterWins(table, values, id) ==
  SelectSeq(table, LAMBDA row : row.values.guest_phone # values.guest_phone)
  \o <<[values |-> values, request |-> id]>>

\* INSERT INTO guests ... VALUES ($1, ..., $8): one more row; the row is
\* tagged with the request it was inserted for
insertRow(table, values, id) == Append(table, [values |-> values, request |-> id])

\* the bodies sent concurrently: two valid checkouts of one phone, a
\* checkout with a short phone
ConcurrentBodies ==
  {ValidBody, MinimalBody, [ValidBody EXCEPT !.guest_phone = Str(T(12345))]}

ConcurrentEnvs ==
  {[EnabledEnv EXCEPT !.RATE_LIMIT_MAX = v] :
     v \in {Undefined, Str(<<"1">>), Str(<<"2">>), Str(<<"0">>), Str(<<"x">>)}}

ConcurrentInit ==
  /\ phase = "idle"
  /\ route = "none"
  /\ req = Null
  /\ res = Null
  /\ calls = <<>>
  /\ server = "part_000"
  /\ env \in ConcurrentEnvs
  /\ NODE_ENV = nodeEnv(server, env)
  /\ bonuses_balance = SampleBonuses
  /\ trace = <<>>
  /\ guests = <<>>
  /\ inflight = <<>>
  /\ limiterHits = 0
  /\ form = Null

\* POST /api/guests arrives: the limiter counts it and answers 429 beyond
\* the limit; otherwise the handler validates, and answers 400 or issues
\* its INSERT and awaits it
GuestsRequestArrives ==
  /\ Len(inflight) < MaxRequests
  /\ limiterHits' = limiterHits + 1
  /\ \E body \in ConcurrentBodies :
       LET o == postGuests(body, TRUE, NODE_ENV)
       IN inflight' =
            Append(inflight,
                   IF limiterHits + 1 > RATE_LIMIT_MAX(env)
                   THEN Request("POST /api/guests", body, "done", FALSE, <<>>, FALSE,
                                tooManyRequests)
                   ELSE IF o.status = 400
                   THEN Request("POST /api/guests", body, "done", TRUE, <<>>, FALSE,
                                Response(o))
                   ELSE Request("POST /api/guests", body, "querying", TRUE, o.calls, FALSE,
                                Null))
  /\ UNCHANGED <<phase, route, req, res, calls, NODE_ENV, bonuses_balance, server, env,
                 trace, guests, form>>

\* GET /api/guests arrives: the limiter, then the SELECT is issued
ListRequestArrives ==
  /\ Len(inflight) < MaxRequests
  /\ limiterHits' = limiterHits + 1
  /\ inflight' =
       Append(inflight,
              IF limiterHits + 1 > RATE_LIMIT_MAX(env)
              THEN Request("GET /api/guests", Null, "done", FALSE, <<>>, FALSE, tooManyRequests)
              ELSE Request("GET /api/guests", Null, "querying", TRUE,
                           <<Query("SELECT guests", "ok")>>, FALSE, Null))
  /\ UNCHANGED <<phase, route, req, res, calls, NODE_ENV, bonuses_balance, server, env,
                 trace, guests, form>>

\* the repository settles the query of one request: the INSERT adds its
\* row or throws; the SELECT reads the table or throws
QuerySettles ==
  \E id \in 1..Len(inflight), dbOk \in BOOLEAN :
    /\ inflight[id].stage = "querying"
    /\ guests' = IF dbOk /\ inflight[id].route = "POST /api/guests"
                 THEN insertRow(guests, inflight[id].queries[1].values, id)
                 ELSE guests
    /\ inflight' =
         [inflight EXCEPT ![id].stage = "settled", ![id].dbOk = dbOk,
            ![id].res = IF inflight[id].route = "POST /api/guests"
                        THEN Response(postGuests(inflight[id].body, dbOk, NODE_ENV))
                        ELSE Response(getGuests(server, NODE_ENV, guests,
                                                IF dbOk THEN "ok"
                                                ELSE "connect ECONNREFUSED"))]
    /\ UNCHANGED <<phase, route, req, res, calls, NODE_ENV, bonuses_balance, server, env,
                   trace, limiterHits, form>>

\* the handler resumes after its await and answers
HandlerResumes ==
  \E id \in 1..Len(inflight) :
    /\ inflight[id].stage = "settled"
    /\ inflight' = [inflight EXCEPT ![id].stage = "done"]
    /\ UNCHANGED <<phase, route, req, res, calls, NODE_ENV, bonuses_balance, server, env,
                   trace, guests, limiterHits, form>>

ConcurrentNext ==
  GuestsRequestArrives \/ ListRequestArrives \/ QuerySettles \/ HandlerResumes

ConcurrentSpec == ConcurrentInit /\ [][ConcurrentNext]_vars

(***************************************************************************)
(* The tier resolver applied to the labels explored.                       *)
(***************************************************************************)
\* a tier label as it may be written: either form, capitalised, two blanks
TierWritings(t) ==
  {t.canonical, t.display,
   <<t.canonical[1], " ", "S">> \o SubSeq(t.canonical, 4, Len(t.canonical)),
   <<t.canonical[1], " ", "\t">> \o SubSeq(t.canonical, 3, Len(t.canonical)),
   <<t.display[1], " ", " ">> \o SubSeq(t.display, 3, Len(t.display))}

OtherLabels ==
  {<<>>, <<" ">>, <<"1">>, <<"s", "e", "a", "s", "o", "n">>,
   <<"1", "s", "e", "a", "s", "o", "n">>, <<"0", " ", "s", "e", "a", "s", "o", "n", "s">>,
   <<"5", " ", "s", "e", "a", "s", "o", "n", "s">>, <<"1", " ", "s", "e", "a", "s", "o", "n", "s">>,
   <<"2", " ", "s", "e", "a", "s", "o", "n">>, <<"g", "o", "l", "d">>}

TierLabels ==
  Padded(UNION {TierWritings(TierTable[i]) : i \in 1..Len(TierTable)} \cup OtherLabels)
  \cup {<<"\t">> \o TierTable[i].canonical \o <<"\n">> : i \in 1..Len(TierTable)}

TierInit ==
  /\ phase = "idle"
  /\ route = "none"
  /\ req = Null
  /\ res = Null
  /\ calls = <<>>
  /\ server = "part_000"
  /\ env = EnabledEnv
  /\ NODE_ENV = nodeEnv(server, env)
  /\ bonuses_balance = SampleBonuses
  /\ trace = <<>>
  /\ guests = <<>>
  /\ inflight = <<>>
  /\ limiterHits = 0
  /\ form = Null

\* one call of the resolver
ResolveTier ==
  /\ phase = "idle"
  /\ \E label \in TierLabels :
       /\ req' = Str(label)
       /\ res' = Str(nextTier(label))
  /\ phase' = "done"
  /\ route' = "nextTier"
  /\ UNCHANGED <<calls, NODE_ENV, bonuses_balance, server, env, trace,
                 guests, inflight, limiterHits, form>>

TierNext == ResolveTier \/ ResponseSent

TierSpec == TierInit /\ [][TierNext]_vars

(***************************************************************************)
(* Startup and authentication, over the revisions and configurations.      *)
(***************************************************************************)
AuthInit ==
  /\ phase = "start"
  /\ route = "none"
  /\ req = Null
  /\ res = Null
  /\ calls = <<>>
  /\ server \in Servers
  /\ env \in Envs
  /\ NODE_ENV = nodeEnv(server, env)
  /\ bonuses_balance = SampleBonuses
  /\ trace = <<>>
  /\ guests = <<>>
  /\ inflight = <<>>
  /\ limiterHits = 0
  /\ form = Null

\* the module body up to app.listen: the process exits or starts to serve
Startup ==
  /\ phase = "start"
  /\ phase' = IF startupExits(server, env) THEN "exited" ELSE "idle"
  /\ trace' = IF startupExits(server, env) THEN <<Effect("console.error", <<>>, 0)>> ELSE <<>>
  /\ UNCHANGED <<route, req, res, calls, NODE_ENV, bonuses_balance, server, env,
                 guests, inflight, limiterHits, form>>

PostApiAuth ==
  /\ phase = "idle"
  /\ \E body \in AuthBodies :
       LET o == apiAuth(server, env, body)
       IN /\ req' = body
          /\ res' = [status |-> o.status, message |-> o.message, data |-> Null]
          /\ trace' = o.trace
  /\ phase' = "done"
  /\ route' = "POST /api/auth"
  /\ calls' = <<>>
  /\ UNCHANGED <<NODE_ENV, bonuses_balance, server, env, guests, inflight, limiterHits, form>>

GetApiConfig ==
  /\ phase = "idle"
  /\ req' = Null
  /\ res' = Response(apiConfig(server, env))
  /\ trace' = <<>>
  /\ phase' = "done"
  /\ route' = "GET /api/config"
  /\ calls' = <<>>
  /\ UNCHANGED <<NODE_ENV, bonuses_balance, server, env, guests, inflight, limiterHits, form>>

AuthNext == Startup \/ PostApiAuth \/ GetApiConfig \/ ResponseSent

AuthSpec == AuthInit /\ [][AuthNext]_vars

(***************************************************************************)
(* The servers without validation answering POST /api/guests.              *)
(***************************************************************************)
LegacyServers == {"part_001", "server.js"}

LegacyInit ==
  /\ phase = "idle"
  /\ route = "none"
  /\ req = Null
  /\ res = Null
  /\ calls = <<>>
  /\ server \in LegacyServers
  /\ env \in {EnabledEnv, DevelopmentEnv}
  /\ NODE_ENV = nodeEnv(server, env)
  /\ bonuses_balance = SampleBonuses
  /\ trace = <<>>
  /\ guests = <<>>
  /\ inflight = <<>>
  /\ limiterHits = 0
  /\ form = Null

PostApiGuestsLegacy ==
  /\ phase = "idle"
  /\ \E body \in GuestBodies, dbOk \in BOOLEAN :
       LET o == postGuestsLegacy(body, dbOk, NODE_ENV)
       IN /\ req' = body
          /\ res' = Response(o)
          /\ calls' = o.calls
          /\ trace' = debugLog(o.status, env)
  /\ phase' = "done"
  /\ route' = "POST /api/guests"
  /\ UNCHANGED <<NODE_ENV, bonuses_balance, server, env, guests, inflight, limiterHits, form>>

LegacyNext == PostApiGuestsLegacy \/ ResponseSent

LegacySpec == LegacyInit /\ [][LegacyNext]_vars

(***************************************************************************)
(* The checkout form in the browser (src/unnamed/part_002): the debounced  *)
(* guest lookup behind the phone input and the submit handler.  The form   *)
(* is a record of what the page holds: the values and read-only state of   *)
(* its inputs, the panels shown, the timers the browser has scheduled and  *)
(* the requests in flight.                                                 *)
(***************************************************************************)
\* (n || '').replace(/\D/g, '').slice(-10)
normalizePhone(n) == sliceLast(stripNonDigits(n), 10)

\* /^\+?7?\d{10}$/.test((n || '').replace(/\D/g, ''))
isValidPhone(n) ==
  LET digits == stripNonDigits(n)
  IN Len(digits) = 10 \/ (Len(digits) = 11 /\ digits[1] = "7")

\* last_name and first_name emptied and made editable
unlockAndClear(f) ==
  [f EXCEPT !.last_name = <<>>, !.first_name = <<>>, !.readonly = FALSE]

hideMessage(f) == [f EXCEPT !.message = Null]

showMessage(f, type, text) == [f EXCEPT !.message = [type |-> type, text |-> text]]

\* submitBtn.disabled = isLoading
setLoading(f, isLoading) == [f EXCEPT !.loading = isLoading]

Timer(id, val, remaining) == [id |-> id, val |-> val, remaining |-> remaining]

\* the debounced function without its clearTimeout
debounced_noClear(f, val) ==
  [f EXCEPT !.timers = @ \cup {Timer(f.nextTimerId, val, DebounceMs)},
            !.timeoutId = f.nextTimerId,
            !.nextTimerId = @ + 1]

\* the function debounce returns, called with val: the timer scheduled
\* before is cleared and a new one is set
debounced(f, val) ==
  [f EXCEPT !.timers = (IF f.timeoutId # 0 THEN {t \in @ : t.id # f.timeoutId} ELSE @)
                         \cup {Timer(f.nextTimerId, val, DebounceMs)},
            !.timeoutId = f.nextTimerId,
            !.nextTimerId = @ + 1]

\* the input listener of the phone field (and hideMessage of the form's)
phoneInput(f, val) ==
  LET cleared == IF Len(stripNonDigits(val)) < 11 THEN unlockAndClear(f) ELSE f
  IN debounced([hideMessage(cleared) EXCEPT !.phone = val, !.entered = val,
                                            !.sinceInput = 0, !.inputs = @ + 1],
               val)

SearchRequest(phone) == [phone |-> phone]

\* updateGuestInfo(val) up to its fetch
lookupStarts(f, val) ==
  LET hidden == [f EXCEPT !.guestInfo = FALSE, !.newGuest = FALSE, !.phoneError = FALSE]
  IN IF ~isValidPhone(val) THEN hidden
     ELSE [hidden EXCEPT !.searching = TRUE,
                         !.lookups = Append(@, SearchRequest(normalizePhone(val)))]

Thrown == [t |-> "throws"]
Json(body) == [t |-> "json", body |-> body]

\* what await fetch(...) and await resp.json() of a lookup can give: the
\* body the server answers with, or an exception
searchResponses(phone, table, nodeEnvText) ==
  {Thrown}
  \cup {Json([data |-> o.data]) :
          o \in UNION {searchBonuses([phone |-> Str(phone)], table, dbOk, nodeEnvText) :
                         dbOk \in BOOLEAN}}

\* updateGuestInfo after its awaits
lookupSettled(f, response) ==
  IF response = Thrown
  THEN [f EXCEPT !.searching = FALSE, !.phoneError = TRUE]
  ELSE
  LET guest == response.body.data IN
  IF guest # Null
  THEN [f EXCEPT !.searching = FALSE,
                 !.guest = guest,
                 !.last_name = guest.last_name,
                 !.first_name = guest.first_name,
                 !.readonly = TRUE,
                 !.loyalty = guest.loyalty_level,
                 !.guestInfo = TRUE]
  ELSE [unlockAndClear(f) EXCEPT !.searching = FALSE,
                                 !.newGuest = TRUE,
                                 !.loyalty = TierTable[1].display]

\* formatDateForBackend(dateStr)
formatDateForBackend(dateStr) ==
  LET p == split(dateStr, "-")
  IN IF Len(p) >= 3 /\ p[1] # <<>> /\ p[2] # <<>> /\ p[3] # <<>>
     THEN p[1] \o <<".">> \o p[2] \o <<".">> \o p[3]
     ELSE dateStr

\* d && m && y ? `${d}-${m}-${y}` : getDateMinusTwoDaysDisplay()
displayStr(dtRaw, twoDaysAgo) ==
  LET p == split(dtRaw, "-")
  IN IF Len(p) >= 3 /\ p[1] # <<>> /\ p[2] # <<>> /\ p[3] # <<>>
     THEN p[3] \o <<"-">> \o p[2] \o <<"-">> \o p[1]
     ELSE twoDaysAgo

\* value || '0'
orZeroText(text) == IF text = <<>> THEN <<"0">> ELSE text

\* the body of the checkout request
submitData(f, twoDaysAgo) ==
  [guest_phone |-> Str(normalizePhone(f.phone)),
   last_name |-> Str(trim(f.last_name)),
   first_name |-> Str(trim(f.first_name)),
   checkin_date |-> Str(formatDateForBackend(displayStr(f.checkin_date, twoDaysAgo))),
   loyalty_level |-> Str(f.loyalty),
   shelter_booking_id |-> Str(trim(f.shelter_booking_id)),
   total_amount |-> parseFloat(Str(orZeroText(f.total_amount))),
   bonus_spent |-> orZero(parseFloat(Str(orZeroText(f.bonus_spent))))]

\* the submit listener up to its fetch
submitStarts(f, twoDaysAgo) ==
  LET h == [hideMessage(f) EXCEPT !.submits = @ + 1]
      amountVal == parseFloat(Str(orZeroText(f.total_amount)))
  IN IF ~isValidPhone(f.phone) THEN [h EXCEPT !.phoneError = TRUE]
     ELSE
     LET g == [h EXCEPT !.phoneError = FALSE] IN
     IF trim(f.last_name) = <<>> \/ trim(f.first_name) = <<>>
     THEN showMessage(g, "error", "names empty")
     ELSE IF trim(f.shelter_booking_id) = <<>>
     THEN showMessage(g, "error", "booking required")
     ELSE IF ~isFinite(amountVal) \/ ~Greater(amountVal, 0)
     THEN showMessage(g, "error", "amount must be positive")
     ELSE [setLoading(g, TRUE) EXCEPT !.request = submitData(f, twoDaysAgo)]

\* setLoading(false) inside the try block, after showMessage
submitSettled_insideTry(f, response) ==
  IF response = Thrown
  THEN [showMessage(f, "error", "send failed") EXCEPT !.request = Null]
  ELSE LET result == response.body
           shown == showMessage(f, IF result.success THEN "success" ELSE "error",
                                result.message)
       IN [setLoading(shown, FALSE) EXCEPT !.request = Null,
                                           !.nextGuest = @ \/ result.success]

\* the submit listener after its awaits
submitSettled(f, response) ==
  IF response = Thrown
  THEN [setLoading(showMessage(f, "error", "send failed"), FALSE) EXCEPT !.request = Null]
  ELSE LET result == response.body
           shown == showMessage(f, IF result.success THEN "success" ELSE "error",
                                result.message)
       IN [setLoading(shown, FALSE) EXCEPT !.request = Null,
                                           !.nextGuest = @ \/ result.success]

\* nextGuestBtn.onclick: the inputs emptied, the panels hidden, the date
\* set to getDateMinusTwoDaysYMD()
nextGuestClicked(f, twoDaysAgoYMD) ==
  hideMessage(unlockAndClear(
    [f EXCEPT !.phone = <<>>, !.shelter_booking_id = <<>>, !.total_amount = <<>>,
              !.bonus_spent = <<>>, !.checkin_date = twoDaysAgoYMD,
              !.guestInfo = FALSE, !.newGuest = FALSE, !.nextGuest = FALSE,
              !.loyalty = TierTable[1].display]))

\* the phone values typed: two guests of the table and a phone cut short
PhoneTexts ==
  {<<"7">> \o T(91612) \o T(34567), <<"7">> \o T(79161) \o T(23456), T(7916)}

\* the values typed into the other inputs
FieldTexts ==
  [last_name |-> {<<" ", "K", "i", "m">>},
   first_name |-> {<<"J", "o">>},
   shelter_booking_id |-> {<<"B", "7">>},
   total_amount |-> {T(1500)}]

\* the answers to a checkout request: the JSON body of the server, or an
\* exception of fetch or of res.json()
SubmitResponses ==
  {Thrown,
   Json([success |-> TRUE, message |-> "guest added"]),
   Json([success |-> FALSE, message |-> "rejected"])}

\* the date the clock gives for two days ago, as DD-MM-YYYY and YYYY-MM-DD
TwoDaysAgo == <<"0", "3">> \o <<"-">> \o <<"0", "3">> \o <<"-">> \o T(2024)
TwoDaysAgoYMD == T(2024) \o <<"-">> \o <<"0", "3">> \o <<"-">> \o <<"0", "3">>

EmptyForm ==
  [phone |-> <<>>, entered |-> <<>>, last_name |-> <<>>, first_name |-> <<>>,
   readonly |-> FALSE, loyalty |-> TierTable[1].display,
   shelter_booking_id |-> <<>>, total_amount |-> <<>>, bonus_spent |-> <<>>,
   checkin_date |-> T(2024) \o <<"-">> \o <<"0", "3">> \o <<"-">> \o <<"0", "5">>,
   guest |-> Null, searching |-> FALSE, guestInfo |-> FALSE, newGuest |-> FALSE,
   phoneError |-> FALSE, message |-> Null, loading |-> FALSE, nextGuest |-> FALSE,
   timers |-> {}, timeoutId |-> 0, nextTimerId |-> 1, sinceInput |-> DebounceMs,
   lookups |-> <<>>, request |-> Null, inputs |-> 0, submits |-> 0]

FormInit ==
  /\ phase = "idle"
  /\ route = "none"
  /\ req = Null
  /\ res = Null
  /\ calls = <<>>
  /\ server = "part_000"
  /\ env = EnabledEnv
  /\ NODE_ENV = nodeEnv(server, env)
  /\ bonuses_balance = SampleBonuses
  /\ trace = <<>>
  /\ guests = <<>>
  /\ inflight = <<>>
  /\ limiterHits = 0
  /\ form = EmptyForm

\* the user changes the phone field
PhoneInput ==
  /\ form.inputs < MaxInputs
  /\ \E val \in PhoneTexts : form' = phoneInput(form, val)
  /\ UNCHANGED <<phase, route, req, res, calls, NODE_ENV, bonuses_balance, server, env,
                 trace, guests, inflight, limiterHits>>

\* the user changes another field that is not read-only; the session
\* explored ends with its last submit
FieldInput ==
  /\ form.submits < MaxSubmits
  /\ \E id \in DOMAIN FieldTexts : \E text \in FieldTexts[id] :
       /\ id \in {"last_name", "first_name"} => ~form.readonly
       /\ form' = [hideMessage(form) EXCEPT ![id] = text]
  /\ UNCHANGED <<phase, route, req, res, calls, NODE_ENV, bonuses_balance, server, env,
                 trace, guests, inflight, limiterHits>>

\* half the debounce delay passes
Tick ==
  /\ form.sinceInput < DebounceMs \/ \E t \in form.timers : t.remaining > 0
  /\ LET step == DebounceMs \div 2
         less(r) == IF r > step THEN r - step ELSE 0
     IN form' = [form EXCEPT
                   !.timers = {Timer(t.id, t.val, less(t.remaining)) : t \in @},
                   !.sinceInput = IF @ + step < DebounceMs THEN @ + step ELSE DebounceMs]
  /\ UNCHANGED <<phase, route, req, res, calls, NODE_ENV, bonuses_balance, server, env,
                 trace, guests, inflight, limiterHits>>

\* a timer that is due runs its callback
TimerFires ==
  /\ \E t \in form.timers :
       /\ t.remaining = 0
       /\ form' = lookupStarts([form EXCEPT !.timers = @ \ {t}], t.val)
  /\ UNCHANGED <<phase, route, req, res, calls, NODE_ENV, bonuses_balance, server, env,
                 trace, guests, inflight, limiterHits>>

\* one of the lookups in flight is answered, whichever
LookupSettles ==
  /\ \E i \in 1..Len(form.lookups) :
       \E response \in searchResponses(form.lookups[i].phone, bonuses_balance, NODE_ENV) :
         form' = lookupSettled(
                   [form EXCEPT !.lookups = SubSeq(@, 1, i - 1) \o SubSeq(@, i + 1, Len(@))],
                   response)
  /\ UNCHANGED <<phase, route, req, res, calls, NODE_ENV, bonuses_balance, server, env,
                 trace, guests, inflight, limiterHits>>

\* the form is submitted; a disabled submit button submits nothing
Submit ==
  /\ ~form.loading
  /\ form.submits < MaxSubmits
  /\ form' = submitStarts(form, TwoDaysAgo)
  /\ UNCHANGED <<phase, route, req, res, calls, NODE_ENV, bonuses_balance, server, env,
                 trace, guests, inflight, limiterHits>>

\* the checkout request is answered or fails
SubmitSettles ==
  /\ form.request # Null
  /\ \E response \in SubmitResponses : form' = submitSettled(form, response)
  /\ UNCHANGED <<phase, route, req, res, calls, NODE_ENV, bonuses_balance, server, env,
                 trace, guests, inflight, limiterHits>>

NextGuestClick ==
  /\ form.nextGuest
  /\ form' = nextGuestClicked(form, TwoDaysAgoYMD)
  /\ UNCHANGED <<phase, route, req, res, calls, NODE_ENV, bonuses_balance, server, env,
                 trace, guests, inflight, limiterHits>>

FormNext ==
  \/ PhoneInput
  \/ FieldInput
  \/ Tick
  \/ TimerFires
  \/ LookupSettles
  \/ Submit
  \/ SubmitSettles
  \/ NextGuestClick

FormSpec == FormInit /\ [][FormNext]_vars

(***************************************************************************)
(* Properties.                                                             *)
(***************************************************************************)
PostDone == phase = "done" /\ route = "POST /api/guests"
SearchDone == phase = "done" /\ route = "GET /api/bonuses/search"
Inserted == PostDone /\ calls # <<>>
Selected == SearchDone /\ calls # <<>>

\* the phone value of the request being answered, as text
PhoneText ==
  IF PostDone THEN String(req.guest_phone) ELSE String(req.phone)

\* the phone key handed to the repository
PhoneKey ==
  IF PostDone THEN calls[1].values.guest_phone.s ELSE calls[1].values[1].s

DecimalDigits == {"0", "1", "2", "3", "4", "5", "6", "7", "8", "9"}

\* the positions of the decimal digits of a text
DigitPositions(s) == {i \in 1..Len(s) : s[i] \in DecimalDigits}

\* the position of the j-th of the last n digits of s
NthOfLast(s, n, j) ==
  CHOOSE i \in DigitPositions(s) :
    Cardinality({k \in DigitPositions(s) : k >= i}) = n - j + 1

\* C1: when the phone value of POST /api/guests or GET /api/bonuses/search
\* holds at least 10 decimal digits, the phone key passed to the repository
\* is exactly its last 10 digits in their original order (and the lookup
\* always issues its query with that key).
C1_PhoneKeyIsLastTenDigits ==
  (PostDone \/ SearchDone) /\ Cardinality(DigitPositions(PhoneText)) >= 10 =>
    /\ SearchDone => calls # <<>>
    /\ calls # <<>> =>
         /\ Len(PhoneKey) = 10
         /\ \A j \in 1..10 : PhoneKey[j] = PhoneText[NthOfLast(PhoneText, 10, j)]

\* a formatted phone with a country code was stored or looked up: more than
\* 10 digits, non-digits among them
C1_Witness ==
  /\ phase = "done"
  /\ calls # <<>>
  /\ Cardinality(DigitPositions(PhoneText)) > 10
  /\ Len(PhoneText) > Cardinality(DigitPositions(PhoneText))
  /\ PhoneKey = T(91612) \o T(34567)

\* C2: a phone value with fewer than 10 decimal digits is answered 400 by
\* both routes and no repository query is issued.
C2_ShortPhoneRejected ==
  (PostDone \/ SearchDone) /\ Cardinality(DigitPositions(PhoneText)) < 10 =>
    res.status = 400 /\ calls = <<>>

\* a phone of exactly 9 digits was rejected by the length check
C2_Witness ==
  /\ phase = "done"
  /\ Cardinality(DigitPositions(PhoneText)) = 9
  /\ res.message \in {"bad phone", "bad phone format"}
  /\ res.status = 400
  /\ calls = <<>>

\* the check-in date of the checkout request being answered, trimmed
DateText == trim(String(req.checkin_date))

\* the check-in date handed to the INSERT
StoredDate == calls[1].values.checkin_date.s

DigitsAt(s, positions) == \A i \in positions : s[i] \in DecimalDigits

\* YYYY<sep>MM<sep>DD
IsYMD(s, sep) ==
  Len(s) = 10 /\ s[5] = sep /\ s[8] = sep /\ DigitsAt(s, {1, 2, 3, 4, 6, 7, 9, 10})

\* DD<sep>MM<sep>YYYY
IsDMY(s, sep) ==
  Len(s) = 10 /\ s[3] = sep /\ s[6] = sep /\ DigitsAt(s, {1, 2, 4, 5, 7, 8, 9, 10})

YearFirst(s) == IsYMD(s, "-") \/ IsYMD(s, ".")
DayFirst(s) == IsDMY(s, ".") \/ IsDMY(s, "-")
HasAcceptedShape(s) == YearFirst(s) \/ DayFirst(s)

YearOf(s) == IF YearFirst(s) THEN SubSeq(s, 1, 4) ELSE SubSeq(s, 7, 10)
MonthOf(s) == IF YearFirst(s) THEN SubSeq(s, 6, 7) ELSE SubSeq(s, 4, 5)
DayOf(s) == IF YearFirst(s) THEN SubSeq(s, 9, 10) ELSE SubSeq(s, 1, 2)

\* "Y-M-D" for a text of one of the four shapes
IsoOf(s) == YearOf(s) \o <<"-">> \o MonthOf(s) \o <<"-">> \o DayOf(s)

ValueOf(d) ==
  IF Len(d) = 0 THEN 0
  ELSE LET digit(c) == CHOOSE k \in 0..9 : DigitChars[k + 1] = c
           F[i \in 0..Len(d)] == IF i = 0 THEN 0 ELSE 10 * F[i - 1] + digit(d[i])
       IN F[Len(d)]

IsLeapYear(y) == (y % 4 = 0 /\ y % 100 # 0) \/ y % 400 = 0

DaysInMonth(y, m) ==
  IF m = 2 THEN (IF IsLeapYear(y) THEN 29 ELSE 28)
  ELSE IF m \in {4, 6, 9, 11} THEN 30 ELSE 31

\* year, month and day texts that denote a day of the calendar
IsCalendarDate(y, m, d) ==
  /\ ValueOf(m) \in 1..12
  /\ ValueOf(d) \in 1..DaysInMonth(ValueOf(y), ValueOf(m))

DateMessages == {"bad date format", "date not recognised"}

\* C3: a calendar date written in any of the four shapes Y-M-D, D.M.Y, D-M-Y
\* and Y.M.D is normalised to the one text "Y-M-D", the date check lets it
\* pass, and that text is what is stored as checkin_date.
C3_FourShapesOneCanonicalDate ==
  /\ PostDone
  /\ HasAcceptedShape(DateText)
  /\ IsCalendarDate(YearOf(DateText), MonthOf(DateText), DayOf(DateText))
  => /\ normalizeCheckinDate(req.checkin_date) = Str(IsoOf(DateText))
     /\ res.message \notin DateMessages
     /\ Inserted => StoredDate = IsoOf(DateText)

\* a date given as DD-MM-YYYY was stored year first
C3_Witness ==
  /\ Inserted
  /\ IsDMY(DateText, "-")
  /\ StoredDate = IsoOf(DateText)
  /\ MonthOf(DateText) # DayOf(DateText)

\* C4: a check-in date whose trimmed text has none of the four shapes, a
\* missing or empty one included, is answered 400 and nothing is inserted.
C4_OtherDateShapesRejected ==
  PostDone /\ ~HasAcceptedShape(DateText) => res.status = 400 /\ calls = <<>>

\* a date written with slashes was rejected for its format
C4_Witness ==
  /\ PostDone
  /\ IsYMD(DateText, "/")
  /\ res.status = 400
  /\ res.message = "bad date format"
  /\ calls = <<>>

\* C5: every check-in date handed to the INSERT is a day of the calendar:
\* month in 1..12 and day within the length of that month in that year.
C5_StoredDateIsCalendarDate ==
  Inserted =>
    /\ IsYMD(StoredDate, "-")
    /\ IsCalendarDate(SubSeq(StoredDate, 1, 4), SubSeq(StoredDate, 6, 7),
                      SubSeq(StoredDate, 9, 10))

\* C6: normalisation is idempotent: the date normaliser returns its own
\* result unchanged, and the phone normalisation (strip the non-digits, keep
\* the last 10) returns a phone key it produced unchanged.
C6_NormalizationIdempotent ==
  /\ PostDone =>
       LET once == normalizeCheckinDate(req.checkin_date)
       IN once # Null => normalizeCheckinDate(once) = once
  /\ phase = "done" /\ calls # <<>> =>
       phoneToStore(normalizedPhoneDigits(Str(PhoneKey))) = PhoneKey

\* a date rewritten from DD.MM.YYYY and a phone cut to its last 10 digits
\* were stored
C6_Witness ==
  /\ Inserted
  /\ IsDMY(DateText, ".")
  /\ StoredDate # DateText
  /\ PhoneKey # stripNonDigits(PhoneText)

\* the amount and bonus of the checkout request being answered, as parsed
ParsedAmount == parseFloat(req.total_amount)
ParsedBonus == parseInt(req.bonus_spent)

StoredAmount == calls[1].values.total_amount
StoredBonus == calls[1].values.bonus_spent

\* 0 < a <= 1,000,000
AmountInRange(a) ==
  /\ a.t = "num"
  /\ ~a.neg
  /\ \/ a.int \in 1..(MaxAmount - 1)
     \/ a.int = MaxAmount /\ a.frac = <<>>
     \/ a.int = 0 /\ a.frac # <<>>

\* the request is accepted once the named fields are given known good values
ValidWith(body) == postGuests(body, TRUE, NODE_ENV).status = 200

\* C7: with the other fields valid, total_amount is accepted exactly when
\* the parsed amount a satisfies 0 < a <= 1,000,000; a rejection is a 400
\* without an insert, and the accepted amount is the value stored.
C7_AmountAcceptedIffInRange ==
  PostDone =>
    /\ ~AmountInRange(ParsedAmount) => res.status = 400 /\ calls = <<>>
    /\ AmountInRange(ParsedAmount)
       /\ ValidWith([req EXCEPT !.total_amount = Str(T(1500))])
       => /\ res.status # 400
          /\ calls # <<>>
          /\ StoredAmount = ParsedAmount

\* the amount 1000000 itself was accepted and stored
C7_Witness ==
  /\ Inserted
  /\ res.status = 200
  /\ StoredAmount = Num(FALSE, MaxAmount, <<>>)

\* C8: the bonus_spent handed to the INSERT is an integer in 0..1,000,000,
\* and 0 when the request has no bonus_spent; a request without loyalty_level
\* and bonus_spent that is otherwise valid is accepted.
C8_StoredBonusInRange ==
  /\ Inserted =>
       /\ StoredBonus.t = "num"
       /\ ~StoredBonus.neg
       /\ StoredBonus.frac = <<>>
       /\ StoredBonus.int \in 0..MaxBonus
       /\ req.bonus_spent = Undefined => StoredBonus.int = 0
  /\ /\ PostDone
     /\ req.bonus_spent = Undefined
     /\ req.loyalty_level = Undefined
     /\ ValidWith([req EXCEPT !.bonus_spent = Whole(0), !.loyalty_level = Str(<<"1">>)])
     => res.status # 400 /\ calls # <<>>

\* a request without the two optional fields was stored with bonus 0
C8_Witness ==
  /\ Inserted
  /\ res.status = 200
  /\ req.bonus_spent = Undefined
  /\ req.loyalty_level = Undefined
  /\ StoredBonus = Num(FALSE, 0, <<>>)

\* the request carries a bonus_spent text or number that is not blank
BonusPresent ==
  req.bonus_spent.t \in {"str", "num"} /\ trim(String(req.bonus_spent)) # <<>>

BonusNegative == ParsedBonus.t = "num" /\ ParsedBonus.neg /\ ParsedBonus.int > 0

BonusAboveLimit ==
  ParsedBonus.t = "num" /\ ~ParsedBonus.neg /\ ParsedBonus.int > MaxBonus

WhiteSpace == {" ", "\t", "\n"}

\* no white space at either end, between 1 and n characters
TrimmedWithin(s, n) ==
  /\ Len(s) \in 1..n
  /\ s[1] \notin WhiteSpace
  /\ s[Len(s)] \notin WhiteSpace

\* the trimmed text is empty or longer than n characters
EmptyOrLonger(v, n) == trim(String(v)) = <<>> \/ Len(trim(String(v))) > n

\* C10: the last_name and first_name handed to the INSERT have no leading or
\* trailing white space and 1..120 characters, the shelter_booking_id none
\* and 1..80; a request whose trimmed name is empty or longer than 120, or
\* whose trimmed booking id is empty or longer than 80, is answered 400.
C10_NamesAndBookingTrimmedBounded ==
  /\ Inserted =>
       /\ TrimmedWithin(calls[1].values.last_name.s, 120)
       /\ TrimmedWithin(calls[1].values.first_name.s, 120)
       /\ TrimmedWithin(calls[1].values.shelter_booking_id.s, 80)
  /\ /\ PostDone
     /\ \/ EmptyOrLonger(req.last_name, 120)
        \/ EmptyOrLonger(req.first_name, 120)
        \/ EmptyOrLonger(req.shelter_booking_id, 80)
     => res.status = 400 /\ calls = <<>>

\* a last name of 120 characters given with blanks around it was stored
\* without them
C10_Witness ==
  /\ Inserted
  /\ Len(calls[1].values.last_name.s) = 120
  /\ Len(String(req.last_name)) > 120

\* the loyalty_level handed to the INSERT: null or a text
StoredLoyalty == calls[1].values.loyalty_level

\* C11: no loyalty_level longer than 120 characters is handed to the INSERT,
\* and a loyalty_level text supplied with the request is stored as given
\* (the blanks around it aside), never replaced by another value.
C11_LoyaltyBoundedStoredAsGiven ==
  Inserted =>
    /\ StoredLoyalty # Null => Len(StoredLoyalty.s) <= 120
    /\ req.loyalty_level.t = "str" /\ trim(req.loyalty_level.s) # <<>> =>
         StoredLoyalty = Str(trim(req.loyalty_level.s))

\* C12: a POST /api/guests request answered 400 issued no repository call:
\* the guests table is not touched on its behalf.
C12_RejectionHasNoSideEffect ==
  PostDone /\ res.status = 400 => calls = <<>>

\* a request that passed every check but the last (the bonus limit) was
\* answered 400 without a repository call
C12_Witness ==
  /\ PostDone
  /\ res.status = 400
  /\ res.message = "bonus too large"
  /\ ValidWith([req EXCEPT !.bonus_spent = Whole(0)])
  /\ calls = <<>>

AuthDone == phase = "done" /\ route = "POST /api/auth"
ConfigDone == phase = "done" /\ route = "GET /api/config"

\* the word true in any letter case
IsTrueWord(v) ==
  /\ v.t = "str"
  /\ Len(v.s) = 4
  /\ v.s[1] \in {"t", "T"} /\ v.s[2] \in {"r", "R"}
  /\ v.s[3] \in {"u", "U"} /\ v.s[4] \in {"e", "E"}

\* authentication is switched off in the environment of the server that
\* runs: AUTH_DISABLED for part_000, DISABLE_AUTH for part_001
SwitchedOff ==
  \/ server = "part_000" /\ IsTrueWord(env.AUTH_DISABLED)
  \/ server = "part_001" /\ IsTrueWord(env.DISABLE_AUTH)

\* the handler computed a digest, read the configured hash or compared
TouchedSecrets ==
  \E i \in 1..Len(trace) : trace[i].op \in {"sha256", "read PASSWORD_HASH", "compare"}

\* C13: with authentication switched off, every POST /api/auth is answered
\* 200, whatever the password (missing, empty, not a string, wrong), and the
\* handler neither hashes the candidate nor reads the configured hash.
C13_DisabledAuthAlwaysSucceeds ==
  AuthDone /\ SwitchedOff => res.status = 200 /\ ~TouchedSecrets

\* a password that is not a string was answered 200 with the switch written
\* in upper case and a hash configured, and no digest was computed
C13_Witness ==
  /\ AuthDone
  /\ SwitchedOff
  /\ req.password = Whole(123)
  /\ env.PASSWORD_HASH = Str(WrittenDigest)
  /\ \/ server = "part_000" /\ env.AUTH_DISABLED = Str(<<"T", "R", "U", "E">>)
     \/ server = "part_001" /\ env.DISABLE_AUTH = Str(<<"T", "R", "U", "E">>)
  /\ res.status = 200
  /\ trace = <<>>

Bypassed == AuthDone /\ SwitchedOff /\ res.status = 200

Logged == \E i \in 1..Len(trace) : trace[i].op \in {"console.warn", "console.error"}

\* GET /api/config of the running server reports the switch
ConfigReportsBypass ==
  apiConfig(server, env).status = 200 /\ apiConfig(server, env).data.authDisabled

\* C14: every POST /api/auth that succeeds through the switch leaves the
\* bypass observable, whatever LOG_LEVEL is: a console line is written for
\* the call, or GET /api/config of that server reports authDisabled: true
\* (and a GET /api/config answered while the switch is on says so).
C14_BypassObservable ==
  /\ Bypassed => Logged \/ ConfigReportsBypass
  /\ ConfigDone /\ SwitchedOff => res.status = 200 /\ res.data.authDisabled

\* a bypass for which no console line was written, with LOG_LEVEL silent
C14_Witness ==
  /\ Bypassed
  /\ ~Logged
  /\ env.LOG_LEVEL = Str(SilentText)
  /\ ConfigReportsBypass

\* part_000 runs with authentication enabled and PASSWORD_HASH holds the
\* digest of P, written in lower or upper case
ConfiguredFor(P) ==
  /\ server = "part_000"
  /\ ~SwitchedOff
  /\ env.PASSWORD_HASH \in {Str(sha256(P)), Str(UpperHex(sha256(P)))}

\* s is P with white space (possibly none) before and after it
SurroundedBy(s, P) ==
  \E i \in 0..(Len(s) - Len(P)) :
    /\ SubSeq(s, i + 1, i + Len(P)) = P
    /\ \A j \in 1..i : s[j] \in WhiteSpace
    /\ \A j \in (i + Len(P) + 1)..Len(s) : s[j] \in WhiteSpace

\* the digest of s or of its trimmed form is the digest of P
DigestMatches(s, P) == sha256(s) = sha256(P) \/ sha256(trim(s)) = sha256(P)

\* C15 as stated: with the digest of P configured, P and P surrounded by
\* white space are answered 200, every string made from P by changing,
\* inserting or deleting one character that is not white space is answered
\* 401, and 200 is given exactly when the digest of the submitted string or
\* of its trimmed form is the configured digest.
C15_PasswordAndMutations ==
  \A P \in ConfiguredPasswords :
    AuthDone /\ ConfiguredFor(P) /\ req.password.t = "str" =>
      /\ SurroundedBy(req.password.s, P) => res.status = 200
      /\ req.password.s \in Mutations(P) => res.status = 401
      /\ res.status = 200 <=> DigestMatches(req.password.s, P)

\* C15 as amended: for a password P with a character that is not white
\* space, P is answered 200, and so is P surrounded by white space when P
\* itself neither starts nor ends with white space; a string made from P by
\* one such change is answered 401, or 400 when only white space is left
\* of it; 200 is given exactly when the digest of the submitted string or of
\* its trimmed form is the configured digest.
C15_PasswordAcceptedIffDigestMatches ==
  \A P \in ConfiguredPasswords :
    AuthDone /\ ConfiguredFor(P) /\ req.password.t = "str" /\ trim(P) # <<>> =>
      /\ req.password.s = P => res.status = 200
      /\ SurroundedBy(req.password.s, P) /\ trim(P) = P => res.status = 200
      /\ req.password.s \in Mutations(P) =>
           res.status = IF trim(req.password.s) = <<>> THEN 400 ELSE 401
      /\ res.status = 200 <=> DigestMatches(req.password.s, P)

\* the password given with blanks around it was accepted through its
\* trimmed form
C15_Witness ==
  /\ AuthDone
  /\ ConfiguredFor(<<"a", "b">>)
  /\ req.password = Str(<<" ", "a", "b", " ">>)
  /\ res.status = 200
  /\ Len(SelectSeq(trace, LAMBDA x : x.op = "sha256")) = 2

\* the number of code units each comparison of a request examined, in order
ComparisonSteps(effects) ==
  LET compared == SelectSeq(effects, LAMBDA x : x.op = "compare")
  IN [i \in 1..Len(compared) |-> compared[i].steps]

\* C16: the password check takes the same steps for every wrong password:
\* two requests answered 401 by the same server that make the same number
\* of comparisons examine the same number of code units in each, wherever
\* the candidate digest first differs from the configured one.
C16_ComparisonConstantTime ==
  AuthDone /\ res.status = 401 =>
    \A body \in AuthBodies :
      LET other == apiAuth(server, env, body)
      IN other.status = 401
         /\ Len(ComparisonSteps(other.trace)) = Len(ComparisonSteps(trace))
         => ComparisonSteps(other.trace) = ComparisonSteps(trace)

\* the server serves requests
Listening == phase \in {"idle", "done"}

\* the configuration is broken: no DATABASE_URL, or authentication is not
\* switched off and PASSWORD_HASH is missing or is not a digest of 64
\* hexadecimal digits after normalisation
BrokenConfiguration ==
  \/ env.DATABASE_URL = Undefined
  \/ env.DATABASE_URL = Str(<<>>)
  \/ ~SwitchedOff /\ normalizeHash(env.PASSWORD_HASH) = Undefined

\* C17: the server never serves with a broken configuration: it exits at
\* startup, before any route can answer.
C17_NeverListensWithBrokenConfiguration ==
  BrokenConfiguration => ~Listening

\* the password of the request is a string with a character that is not
\* white space
PasswordGiven == req.password.t = "str" /\ trim(req.password.s) # <<>>

\* the digest of the submitted string or of its trimmed form is the
\* configured digest
PasswordMatches ==
  /\ PasswordGiven
  /\ normalizeHash(env.PASSWORD_HASH) \in
       {Str(sha256(req.password.s)), Str(sha256(trim(req.password.s)))}

\* C18: with authentication enabled, POST /api/auth of part_000 gives one
\* of three outcomes: 400 for a password that is missing, not a string,
\* empty or only white space; 401 for any other password that does not
\* match; 200 only for a password that matches.
C18_AuthOutcomes ==
  AuthDone /\ server = "part_000" /\ ~SwitchedOff =>
    /\ res.status \in {200, 400, 401}
    /\ ~PasswordGiven => res.status = 400
    /\ PasswordGiven /\ ~PasswordMatches => res.status = 401
    /\ res.status = 200 => PasswordMatches

\* a number was sent as the password and answered 400, though its digits
\* are those of a text
C18_Witness ==
  /\ AuthDone
  /\ server = "part_000"
  /\ ~SwitchedOff
  /\ req.password = Whole(123)
  /\ res.status = 400
  /\ trace = <<>>

TierDone == phase = "done" /\ route = "nextTier"

\* the words of a text: its runs of characters that are not white space
RECURSIVE WordsOf(_)
WordsOf(s) ==
  IF s = <<>> THEN <<>>
  ELSE IF s[1] \in WhiteSpace THEN WordsOf(Tail(s))
  ELSE LET stops == {i \in 1..Len(s) : s[i] \in WhiteSpace}
           n == IF stops = {} THEN Len(s)
                ELSE (CHOOSE i \in stops : \A j \in stops : i <= j) - 1
       IN <<SubSeq(s, 1, n)>> \o WordsOf(SubSeq(s, n + 1, Len(s)))

TierWord == <<"s", "e", "a", "s", "o", "n">>

\* the words of tier n in lower or upper case letters
IsTierWords(w, n) ==
  /\ Len(w) = 2
  /\ w[1] = <<DigitChars[n + 1]>>
  /\ LET word == IF n = 1 THEN TierWord ELSE TierWord \o <<"s">>
     IN /\ Len(w[2]) = Len(word)
        /\ \A i \in 1..Len(word) : w[2][i] \in {word[i], UpperHex(<<word[i]>>)[1]}

\* the place of a label in the order of the four tiers, 0 for a label that
\* is none of them
RankOf(label) ==
  IF \E n \in 1..4 : IsTierWords(WordsOf(label), n)
  THEN CHOOSE n \in 1..4 : IsTierWords(WordsOf(label), n)
  ELSE 0

\* C19: nextTier gives the display form of tier 1 for an empty or unknown
\* label and of tier min(i + 1, 4) for a label that is tier i once trimmed,
\* lower-cased and its white space collapsed; the result is never a lower
\* tier than the input, never more than one step above it, and the last
\* tier gives itself.
C19_NextTierAdvancesOneStep ==
  TierDone =>
    LET i == RankOf(req.s)
        next == IF i = 0 THEN 1 ELSE IF i + 1 <= 4 THEN i + 1 ELSE 4
    IN /\ res = Str(TierTable[next].display)
       /\ RankOf(res.s) = next
       /\ i > 0 => RankOf(res.s) \in {i, i + 1}
       /\ i = 4 => RankOf(res.s) = 4

\* the third tier, written in capitals with blanks around and inside, was
\* resolved to the fourth
C19_Witness ==
  /\ TierDone
  /\ RankOf(req.s) = 3
  /\ req.s # TierTable[3].canonical
  /\ Len(req.s) > Len(TierTable[3].canonical)
  /\ res = Str(TierTable[4].display)

\* C20: when GET /api/bonuses/search finds a record, the loyalty_level of
\* the response is nextTier of the stored tier of that record, not the
\* stored tier itself (the two are the same for the last tier only).
C20_LookupReturnsNextTier ==
  SearchDone /\ res.status = 200 /\ res.data # Null =>
    \E i \in 1..Len(bonuses_balance) :
      /\ bonuses_balance[i].phone = res.data.guest_phone
      /\ bonuses_balance[i].last_date_visit = res.data.last_visit_date
      /\ res.data.loyalty_level = nextTier(bonuses_balance[i].loyalty_level)

\* the rows of the table stored under the phone key of the lookup
RowsOfKey == {i \in 1..Len(bonuses_balance) : bonuses_balance[i].phone = PhoneKey}

RepositoryFailed ==
  phase = "done" /\ calls # <<>> /\ calls[1].outcome \in ErrorTexts

\* the process was started with NODE_ENV=development
ExplicitDevelopment == env.NODE_ENV = Str(DevelopmentText)

\* C22: a request whose repository call fails is answered 500, and unless
\* the server was started in development mode explicitly (NODE_ENV unset
\* included) the response carries a fixed generic text, never the text of
\* the exception.
C22_FailureAnsweredGenerically ==
  RepositoryFailed =>
    /\ res.status = 500
    /\ ~ExplicitDevelopment => res.message \notin ErrorTexts

\* a field reduced to text as C23 describes it: the first element of a
\* sequence, nothing for an empty sequence and for a missing or null field
FirstElementText(v) ==
  IF v.t = "arr" THEN (IF v.a = <<>> THEN <<>> ELSE v.a[1])
  ELSE IF v.t \in {"undef", "null"} THEN <<>>
  ELSE String(v)

\* the fields of the request that arrived as a sequence with several elements
SequenceFields ==
  {f \in {"guest_phone", "last_name", "first_name", "shelter_booking_id", "loyalty_level"} :
     req[f].t = "arr" /\ Len(req[f].a) > 1}

\* C23: a field of POST /api/guests that arrives as a sequence is stored
\* from its first element alone (trimmed; for the phone the last 10 digits
\* of that element), and no other element of the sequence is in the stored
\* value.
C23_SequenceReducedToFirstElement ==
  Inserted =>
    \A f \in SequenceFields :
      LET stored == calls[1].values[f]
          first == FirstElementText(req[f])
      IN IF f = "guest_phone" THEN stored = Str(sliceLast(stripNonDigits(first), 10))
         ELSE IF f = "loyalty_level" /\ trim(first) = <<>> THEN stored = Null
         ELSE stored = Str(trim(first))

\* the checkout requests in flight or answered
Checkouts == {i \in 1..Len(inflight) : inflight[i].route = "POST /api/guests"}

\* the response and the INSERT of each checkout handled alone, with the
\* repository succeeding or failing, in either mode
AloneResults ==
  [body \in ConcurrentBodies |->
     [dbOk \in BOOLEAN |->
        [mode \in {ProductionText, DevelopmentText} |-> postGuests(body, dbOk, mode)]]]

Alone(body, dbOk) == AloneResults[body][dbOk][NODE_ENV]

\* the rows of the table inserted for a request
RowsOf(i) == {k \in 1..Len(guests) : guests[k].request = i}

\* request i, as far as it has come, is what it would be alone: one INSERT
\* issued if the checkout is valid and none otherwise, its row in the table
\* once the INSERT has succeeded, with the values of the request, and its
\* response the one it would get alone
AsIfAlone(i) ==
  LET r == inflight[i]
      accepted == Alone(r.body, TRUE).status = 200
  IN /\ r.queries = IF accepted THEN Alone(r.body, TRUE).calls ELSE <<>>
     /\ Len(r.queries) = IF accepted THEN 1 ELSE 0
     /\ Cardinality(RowsOf(i)) = IF accepted /\ r.stage # "querying" /\ r.dbOk THEN 1 ELSE 0
     /\ \A k \in RowsOf(i) : guests[k].values = Alone(r.body, TRUE).calls[1].values
     /\ r.stage # "querying" => r.res = Response(Alone(r.body, accepted /\ r.dbOk))

RequiredFields ==
  {"guest_phone", "last_name", "first_name", "shelter_booking_id", "total_amount"}

\* the messages of the ten checks, in the order of the claim
CheckMessages ==
  <<"required fields", "bad phone", "empty name", "name too long", "empty booking",
    "booking too long", "bad date format", "date not recognised", "bad amount",
    "bonus too large">>

\* the request being answered violates the k-th constraint
Violates(k) ==
  CASE k = 1 -> \E f \in RequiredFields : Falsy(req[f])
    [] k = 2 -> Cardinality(DigitPositions(PhoneText)) < 10
    [] k = 3 -> trim(String(req.last_name)) = <<>> \/ trim(String(req.first_name)) = <<>>
    [] k = 4 -> Len(trim(String(req.last_name))) > 120 \/ Len(trim(String(req.first_name))) > 120
    [] k = 5 -> trim(String(req.shelter_booking_id)) = <<>>
    [] k = 6 -> Len(trim(String(req.shelter_booking_id))) > 80
    [] k = 7 -> Falsy(req.checkin_date) \/ ~HasAcceptedShape(DateText)
    [] k = 8 -> HasAcceptedShape(DateText) /\ dateParseIsNaN(IsoOf(DateText))
    [] k = 9 -> ~AmountInRange(ParsedAmount)
    [] k = 10 -> BonusAboveLimit

ViolatedChecks == {k \in 1..Len(CheckMessages) : Violates(k)}

EarliestViolated == CHOOSE k \in ViolatedChecks : \A j \in ViolatedChecks : k <= j

\* C25: POST /api/guests checks in a fixed order (required fields, phone
\* length, empty name, name length, empty booking id, booking id length, date
\* shape, date parse, amount range, bonus limit); a request violating several
\* constraints is answered 400 with the one message of the earliest violated
\* check and nothing is stored, and a request violating none is not answered
\* 400.
C25_EarliestViolatedCheckReported ==
  PostDone =>
    IF ViolatedChecks = {} THEN res.status # 400
    ELSE /\ res.status = 400
         /\ res.message = CheckMessages[EarliestViolated]
         /\ calls = <<>>

\* a request with a short phone, an over-long name, a date that does not
\* parse, a negative amount and a bonus above the limit was answered with
\* the phone message alone
C25_Witness ==
  /\ PostDone
  /\ {2, 4, 8, 9, 10} \subseteq ViolatedChecks
  /\ res.status = 400
  /\ res.message = "bad phone"
  /\ calls = <<>>


\* the strict server is serving with authentication enabled
StrictServing == server = "part_000" /\ Listening /\ ~SwitchedOff

\* the answer of the missing-hash branch of POST /api/auth and its log line
ConfigurationErrorAnswered ==
  \/ res.status = 500
  \/ res.message = "server configuration"
  \/ \E i \in 1..Len(trace) : trace[i].op = "console.error"

\* C26: while the strict server serves with authentication enabled, the
\* PASSWORD_HASH it compares with is a digest of 64 hexadecimal digits, and
\* POST /api/auth never gives the answer of its missing-hash branch (500,
\* configuration error, a console.error line).
C26_NoConfigurationErrorWhileServing ==
  StrictServing =>
    /\ PASSWORD_HASH(env).t = "str"
    /\ Len(PASSWORD_HASH(env).s) = 64
    /\ \A i \in 1..Len(PASSWORD_HASH(env).s) :
         PASSWORD_HASH(env).s[i] \in DecimalDigits \cup {"a", "b", "c", "d", "e", "f"}
    /\ AuthDone => ~ConfigurationErrorAnswered

\* the strict server was started with a hash written with a prefix and
\* answered a password by comparing it with the normalised digest
C26_Witness ==
  /\ StrictServing
  /\ AuthDone
  /\ env.PASSWORD_HASH # PASSWORD_HASH(env)
  /\ res.status \in {200, 401}
  /\ \E i \in 1..Len(trace) : trace[i] = ReadPasswordHash


\* the strict handler accepts the request being answered
StrictValues == postGuests(req, TRUE, ProductionText).calls

Columns ==
  {"guest_phone", "last_name", "first_name", "checkin_date", "loyalty_level",
   "shelter_booking_id", "total_amount", "bonus_spent"}

\* a query parameter as the database driver sends it: undefined goes as NULL
Sent(v) == IF v = Undefined THEN Null ELSE v

\* C27: for every request the handler of part_000 accepts, the handler of
\* src/server.js and part_001 passes the same eight column values to the
\* INSERT.
C27_LegacyAgreesWithStrict ==
  PostDone /\ server \in LegacyServers /\ StrictValues # <<>> =>
    /\ calls # <<>>
    /\ \A c \in Columns : Sent(calls[1].values[c]) = Sent(StrictValues[1].values[c])


\* every lookup response has been delivered and no lookup is scheduled
LookupsDelivered == form.lookups = <<>> /\ form.timers = {}

\* C28: once every lookup response has been delivered, the guest data the
\* form displays is that of the phone entered last: a guest panel on show
\* holds the guest of that phone, and when that phone has fewer than 11
\* digits and is not valid, no guest is shown and the names are not filled
\* read-only.
C28_DisplayedGuestIsOfLatestPhone ==
  LookupsDelivered =>
    /\ form.guestInfo =>
         /\ isValidPhone(form.entered)
         /\ form.guest.guest_phone = normalizePhone(form.entered)
    /\ Len(stripNonDigits(form.entered)) < 11 /\ ~isValidPhone(form.entered) =>
         ~form.guestInfo /\ ~form.readonly

\* C29: the browser holds at most one lookup timer of the form, and a
\* search request is sent only when 600 ms have passed since the last phone
\* input, with the phone of that last input.
C29_OneTimerLatestValueAfterQuiet ==
  /\ [](Cardinality(form.timers) <= 1)
  /\ [][Len(form'.lookups) > Len(form.lookups) =>
          /\ form.sinceInput >= 600
          /\ form'.lookups[Len(form'.lookups)].phone = normalizePhone(form.entered)]_vars

\* two phone inputs were made and the one search request in flight carries
\* the phone of the second
C29_Witness ==
  /\ form.inputs = 2
  /\ form.nextTimerId = 3
  /\ form.timers = {}
  /\ Len(form.lookups) = 1
  /\ form.lookups[1].phone = normalizePhone(form.entered)
  /\ form.lookups[1].phone = T(79161) \o T(23456)
  /\ form.guest = Null

\* the form as it stands passes the checks of the submit listener
ClientValid ==
  LET amount == parseFloat(Str(form.total_amount))
  IN /\ Len(stripNonDigits(form.phone)) \in {10, 11}
     /\ Len(stripNonDigits(form.phone)) = 11 => stripNonDigits(form.phone)[1] = "7"
     /\ trim(form.last_name) # <<>>
     /\ trim(form.first_name) # <<>>
     /\ trim(form.shelter_booking_id) # <<>>
     /\ amount.t = "num" /\ ~amount.neg /\ (amount.int > 0 \/ amount.frac # <<>>)

\* C30: the submit button is disabled exactly while a checkout request is
\* in flight: a submit that passes the client-side checks disables it and
\* sends the request, a submit that fails them sends nothing and leaves it
\* enabled, and it is enabled again once the request has settled, whatever
\* the outcome.
C30_LoadingWhileRequestInFlight ==
  /\ [](form.loading <=> form.request # Null)
  /\ [][form'.submits # form.submits =>
          IF ClientValid THEN form'.loading /\ form'.request # Null
          ELSE ~form'.loading /\ form'.request = Null]_vars

\* a checkout request failed with an exception and the button is enabled
\* again
C30_Witness ==
  /\ form.submits = 1
  /\ form.request = Null
  /\ ~form.loading
  /\ form.message = [type |-> "error", text |-> "send failed"]

====
